---- MODULE Spec2Model ----
(***************************************************************************)
(* Discovery engine of the aggregation service                             *)
(* (svc-aggregation/system/common.go): the recursive resource crawl with   *)
(* its progress accounting, and the plugin contact protocol.               *)
(*                                                                         *)
(* A path ("OID") is the sequence strings.Split(oid, "/") yields, so       *)
(* "/redfish/v1/Systems/1" is <<"", "redfish", "v1", "Systems", "1">> and  *)
(* a trailing separator shows as a last empty segment.                     *)
(***************************************************************************)
EXTENDS Integers, Sequences, FiniteSets, TLC

\* ------------------------------------------------------------------ bounds
\* largest top-level work budget (alottedWork)
MaxBudget == 2
\* largest number of @odata.id links one fetched document carries
MaxLinks == 2
\* largest number of members a collection lists
MaxMembers == 2
\* cap on the nesting of getResourceDetails calls (never binding: see
\* DepthBounded)
MaxDepth == 3

\* ------------------------------------------------------------ int32 values
MaxInt32 == 2147483647
MinInt32 == -2147483647 - 1

\* a + b in int32 arithmetic (wraps around)
Add32(a, b) ==
  IF b > 0 /\ a > MaxInt32 - b
  THEN (a - MaxInt32 - 1) + (b - MaxInt32 - 1)
  ELSE IF b < 0 /\ a < MinInt32 - b
  THEN (a + MaxInt32 + 1) + (b + MaxInt32 + 1)
  ELSE a + b

\* Go's integer division truncates toward zero
GoDiv(a, b) == IF a >= 0 THEN a \div b ELSE -((-a) \div b)

\* ------------------------------------------------------------------- paths
SYS == <<"", "redfish", "v1", "Systems", "1">>
STO == <<"", "redfish", "v1", "Systems", "1", "Storage">>
PROC == <<"", "redfish", "v1", "Systems", "1", "Processors">>
CH == <<"", "redfish", "v1", "Chassis", "1">>
SENS == <<"", "redfish", "v1", "Chassis", "1", "Sensors">>

SYS2 == <<"", "redfish", "v1", "Systems", "2">>
CH2 == <<"", "redfish", "v1", "Chassis", "2">>
SystemsCollection == <<"", "redfish", "v1", "Systems">>
ChassisCollection == <<"", "redfish", "v1", "Chassis">>

\* the resources the documents of the plugin link to, the members its
\* collections list, and all the paths it serves
Nodes == {STO, PROC, SENS}
SystemMembers == {SYS, SYS2}
ChassisMembers == {CH, CH2}
Registries == <<"", "redfish", "v1", "Registries">>
REG1 == <<"", "redfish", "v1", "Registries", "Base">>
REGFILE == <<"", "redfish", "v1", "registrystore", "Base.json">>

\* the telemetry collections getTelemetryService asks for, and their members
MetricDefinitions ==
  <<"", "redfish", "v1", "TelemetryService", "MetricDefinitions">>
MetricReports == <<"", "redfish", "v1", "TelemetryService", "MetricReports">>
M1 == MetricDefinitions \o <<"CPUUtil">>
M2 == MetricDefinitions \o <<"PowerWatts">>
R1 == MetricReports \o <<"Report1">>
TeleCollections == {MetricDefinitions, MetricReports}
TeleMembers == {M1, M2, R1}

Paths == Nodes \cup SystemMembers \cup ChassisMembers
           \cup {SystemsCollection, ChassisCollection}
           \cup {Registries, REG1, REGFILE}
           \cup TeleCollections \cup TeleMembers

\* the devices of the fleet
Devices == {"d1", "d2"}

ToLower(s) ==
  CASE s = "Systems" -> "systems"
    [] s = "Chassis" -> "chassis"
    [] s = "Managers" -> "managers"
    [] s = "Storage" -> "storage"
    [] s = "Processors" -> "processors"
    [] s = "Sensors" -> "sensors"
    [] s = "FirmwareInventory" -> "firmwareinventory"
    [] s = "SoftwareInventory" -> "softwareinventory"
    [] s = "Licenses" -> "licenses"
    [] s = "Oem" -> "oem"
    [] s = "OEM" -> "oem"
    [] s = "XAuthToken" -> "xauthtoken"
    [] s = "XAUTHTOKEN" -> "xauthtoken"
    [] s = "BasicAuth" -> "basicauth"
    [] OTHER -> s

\* strings.EqualFold on one segment and on whole paths
EqualFold(a, b) == ToLower(a) = ToLower(b)

EqualFoldPath(p, q) ==
  /\ Len(p) = Len(q)
  /\ \A i \in 1..Len(p) : EqualFold(p[i], q[i])

\* strings.TrimSuffix(oid, "/")
TrimSuffix(p) ==
  IF Len(p) > 1 /\ p[Len(p)] = "" THEN SubSeq(p, 1, Len(p) - 1) ELSE p

\* oid + "/"
WithSlash(p) == Append(p, "")

\* strings.Contains(oid, name) for a name without separator: the name lies
\* within one segment; no segment used here has one of the names as a proper
\* substring, so containment in a segment is equality
PathContains(p, name) == \E i \in 1..Len(p) : p[i] = name

\* strconv.Atoi(seg) succeeds
IsNumber(seg) == seg \in {"1", "2"}

\* --------------------------------------------------------- configuration
SkipResourceListUnderSystem ==
  {"Chassis", "Managers", "LogServices", "WorkloadPerformanceAdvisor"}
SkipResourceListUnderChassis == {"Managers", "Systems", "Devices"}
SkipResourceListUnderOthers ==
  {"Power", "Thermal", "SmartStorage", "LogServices"}

\* ------------------------------------------------------------ keyFormation
KeyOwnerSegments ==
  {"systems", "chassis", "managers", "firmwareinventory", "softwareinventory"}

RECURSIVE keySegs(_, _, _, _)
keySegs(str, i, systemID, uuid) ==
  IF i > Len(str) THEN <<>>
  ELSE LET id == str[i]
           seg == IF i > 1 /\ id = systemID
                     /\ ToLower(str[i - 1]) \in KeyOwnerSegments
                  THEN uuid \o "." \o id
                  ELSE IF i > 1 /\ EqualFold(str[i - 1], "Licenses")
                  THEN uuid \o "." \o id
                  ELSE id
       IN <<seg>> \o keySegs(str, i + 1, systemID, uuid)

\* the path is kept as it is, without the device UUID
keyFormation_plain(oid, systemID, uuid) ==
  IF oid[Len(oid)] = "" THEN SubSeq(oid, 1, Len(oid) - 1) ELSE oid

keyFormation(oid, systemID, uuid) ==
  keySegs(IF oid[Len(oid)] = "" THEN SubSeq(oid, 1, Len(oid) - 1) ELSE oid,
          1, systemID, uuid)

\* strings.Replace(oid, "/redfish/v1/<coll>/", "/redfish/v1/<coll>/"+uuid+".")
HasRoot(p, coll) ==
  \E i \in 2..(Len(p) - 3) :
     p[i] = "redfish" /\ p[i + 1] = "v1" /\ p[i + 2] = coll

PrefixRoot(p, coll, uuid) ==
  [i \in 1..Len(p) |->
     IF i > 4 /\ p[i - 3] = "redfish" /\ p[i - 2] = "v1" /\ p[i - 1] = coll
     THEN uuid \o "." \o p[i] ELSE p[i]]

getResourceName(oid, memberFlag) ==
  IF memberFlag THEN oid[Len(oid)] \o "Collection"
  ELSE IF IsNumber(oid[Len(oid) - 1]) THEN oid[Len(oid)]
  ELSE oid[Len(oid) - 1]

\* the key getResourceDetails stores a document under
resourceKey(oid, systemID, uuid) ==
  IF HasRoot(oid, "Managers") \/ HasRoot(oid, "Chassis")
  THEN PrefixRoot(PrefixRoot(oid, "Managers", uuid), "Chassis", uuid)
  ELSE keyFormation(oid, systemID, uuid)

\* ----------------------------------------------------------- link filters
\* checkRetrieval without the test of the visited set
checkRetrieval_noVisited(oid, parentoid, traversedLinks) ==
  /\ ~(EqualFoldPath(parentoid, oid) \/ EqualFoldPath(WithSlash(parentoid), oid))
  /\ \A name \in SkipResourceListUnderOthers : ~PathContains(parentoid, name)

checkRetrieval(oid, parentoid, traversedLinks) ==
  /\ oid \notin traversedLinks
  /\ ~(EqualFoldPath(parentoid, oid) \/ EqualFoldPath(WithSlash(parentoid), oid))
  /\ \A name \in SkipResourceListUnderOthers : ~PathContains(parentoid, name)

removeRetrievalLinks(retrievalLinks, parentoid, resourceList, traversedLinks) ==
  {l \in retrievalLinks :
     /\ l \notin traversedLinks
     /\ ~(EqualFoldPath(parentoid, l) \/ EqualFoldPath(WithSlash(parentoid), l))
     /\ \A name \in resourceList : ~PathContains(l, name)}

\* progress = alottedWork: the work done so far is dropped
addWork_reset(progress, alottedWork) == alottedWork

\* progress = progress + alottedWork
addWork(progress, alottedWork) == Add32(progress, alottedWork)

\* estimatedWork := alottedWork / int32(len(links))
estimatedWork(alottedWork, n) == GoDiv(alottedWork, n)

\* ------------------------------------------------------- plugin contact
\* message constants of lib-utilities/response
CouldNotEstablishConnection == "CouldNotEstablishConnection"
ResourceAtURIUnauthorized == "ResourceAtURIUnauthorized"
InternalError == "InternalError"
ResourceAlreadyExists == "ResourceAlreadyExists"

\* config.Data.URLTranslation.NorthBoundURL: southbound name -> northbound
NorthBoundURL == [x \in {"ODIM"} |-> "redfish"]

\* strings.Replace(data, key, value, -1) for every entry of the table
translate(body, table) ==
  [i \in 1..Len(body) |->
     IF body[i] \in DOMAIN table THEN table[body[i]] ELSE body[i]]

\* "https://" + req.Plugin.IP + ":" + req.Plugin.Port + req.OID
pluginURL(req) == <<"https://", req.Plugin.IP, ":", req.Plugin.Port, req.OID>>

NoError == <<>>
NoBody == <<>>

\* a connection-level failure of callPlugin and an HTTP response
ConnErr == [err |-> TRUE, StatusCode |-> 0, Body |-> NoBody,
            Location |-> "", XAuthToken |-> ""]
Response(code, body, location, token) ==
  [err |-> FALSE, StatusCode |-> code, Body |-> body,
   Location |-> location, XAuthToken |-> token]

\* lines 303-305: the liveness probe is called
probed_any(req, r1) == req.StatusPoll

probed(req, r1) == r1.err /\ req.StatusPoll

\* lines 305-306: the original call is made a second time
retried_unprobed(req, r1, healthy) == r1.err

retried(req, r1, healthy) == probed(req, r1) /\ healthy

\* lines 348-352: the header returned next to the body of a success
headerValue_token(pluginResp) == pluginResp.XAuthToken

headerValue(pluginResp) ==
  IF pluginResp.StatusCode = 202
  THEN pluginResp.Location ELSE pluginResp.XAuthToken

\* contactPlugin, given what the plugin answers to the first call (r1), what
\* the liveness probe reports (healthy), what the plugin answers to a retry
\* (r2) and whether the response body can be read (readOK).  trace lists the
\* outbound calls in the order made.
contactPlugin(req, errorMessage, r1, healthy, r2, readOK) ==
  LET pluginResp == IF retried(req, r1, healthy) THEN r2 ELSE r1
      trace == <<"callPlugin">>
               \o (IF probed(req, r1) THEN <<"GetPluginStatus">> ELSE <<>>)
               \o (IF retried(req, r1, healthy) THEN <<"callPlugin">> ELSE <<>>)
  IN IF pluginResp.err
     THEN [body |-> NoBody, second |-> "", trace |-> trace,
           resp |-> [StatusCode |-> 503,
                     StatusMessage |-> CouldNotEstablishConnection,
                     MsgArgs |-> <<pluginURL(req)>>],
           err |-> <<errorMessage, "connection">>]
     ELSE IF ~readOK
     THEN [body |-> NoBody, second |-> "", trace |-> trace,
           resp |-> [StatusCode |-> 500, StatusMessage |-> InternalError,
                     MsgArgs |-> <<>>],
           err |-> <<"error while trying to read plugin response body: ">>]
     ELSE IF pluginResp.StatusCode \notin {201, 200, 202}
     THEN IF pluginResp.StatusCode = 401
          THEN [body |-> NoBody, second |-> "", trace |-> trace,
                resp |-> [StatusCode |-> 401,
                          StatusMessage |-> ResourceAtURIUnauthorized,
                          MsgArgs |-> <<pluginURL(req)>>],
                err |-> <<errorMessage,
                          "error: invalid resource username/password">>]
          ELSE [body |-> pluginResp.Body, second |-> "", trace |-> trace,
                resp |-> [StatusCode |-> pluginResp.StatusCode,
                          StatusMessage |-> InternalError, MsgArgs |-> <<>>],
                err |-> <<errorMessage, pluginResp.Body>>]
     ELSE [body |-> translate(pluginResp.Body, NorthBoundURL),
           second |-> headerValue(pluginResp),
           trace |-> trace,
           resp |-> [StatusCode |-> pluginResp.StatusCode,
                     StatusMessage |-> "", MsgArgs |-> <<>>],
           err |-> NoError]

\* ------------------------------------------------------------ crawl state
VARIABLES
  input,           \* the request of the caller: UpdateFlag, DeviceUUID
  stack,           \* the active calls of the crawl, innermost last
  progress,        \* the progress value handed from call to call
  TraversedLinks,  \* respHolder.TraversedLinks (the keys of the map)
  InventoryData,   \* respHolder.InventoryData: <<table, key>> -> source OID
  SystemURL,       \* respHolder.SystemURL
  hErr,            \* respHolder.ErrorMessage/StatusCode/StatusMessage/MsgArgs
  fetches,         \* number of contactPlugin calls made for each path
  saved,           \* what was handed to SaveBMCInventory / SaveIndex
  store,           \* the telemetry tables of the database
  plugin,          \* a contactPlugin or checkStatus call: request, calls made
  tele,            \* the concurrent getTeleInfo calls of the fleet
  monitor,         \* a monitorPluginTask call: position, task, events so far
  calc,            \* a pure function under test: arguments and results
  fleet,           \* the keys written for the devices crawled before
  emb,             \* the topic list, its lock and the ConsumeTopic calls
  branches,        \* branch crawls sharing one respHolder, and its lock
  ret              \* the call that returned last: arguments and results

vars == <<input, stack, progress, TraversedLinks, InventoryData, SystemURL,
          hErr, fetches, saved, ret, store, plugin, tele, monitor, calc, fleet, emb, branches>>

\* the state outside the crawl of one device
aside == <<plugin, tele, monitor, calc, fleet, emb, branches>>

\* req.DeviceUUID: the device being crawled
DeviceUUID == input.DeviceUUID

ThePlugin == [IP |-> "10.0.0.1", Port |-> "45001"]

\* the documents a plugin can answer with: the links getLinks extracts from
\* it, and whether it has a "Members" key
LinkSets == {ls \in SUBSET Nodes : Cardinality(ls) <= MaxLinks}
Documents == [links : LinkSets, Members : {FALSE}]

DocBody == <<"{", "ODIM", "}">>
Garbage == <<"<html>">>
CrawlResponses ==
  {ConnErr, Response(200, DocBody, "", ""), Response(200, Garbage, "", "")}

\* json.Unmarshal(body, &map) succeeds
jsonValid(body) == Len(body) > 0 /\ body[1] = "{"

\* the outcomes contactPlugin can have for one request of the crawl
crawlContact(oid, errorMessage) ==
  {contactPlugin([OID |-> oid, StatusPoll |-> poll, Plugin |-> ThePlugin],
                 errorMessage, r1, healthy, r2, readOK) :
     r1 \in CrawlResponses, r2 \in CrawlResponses, poll \in BOOLEAN,
     healthy \in BOOLEAN, readOK \in {TRUE}}

NoErrorState == [ErrorMessage |-> NoError, StatusCode |-> 0,
                 StatusMessage |-> "", MsgArgs |-> <<>>]

NoReturn == [fn |-> "", OID |-> <<>>, progIn |-> 0, alottedWork |-> 0,
             progOut |-> 0, err |-> NoError, outcome |-> "",
             nchild |-> 0, allocs |-> {}]

Frame(fn, oid, parent, systemID, work, progIn) ==
  [fn |-> fn, pc |-> "call", OID |-> oid, ParentOID |-> parent,
   SystemID |-> systemID, alottedWork |-> work, progIn |-> progIn,
   oid |-> <<>>, links |-> {}, nlinks |-> 0, members |-> <<>>,
   nmembers |-> 0, foundErr |-> FALSE, nchild |-> 0, allocs |-> {},
   doc |-> <<>>]

top == stack[Len(stack)]
Running(fn, pc) == Len(stack) > 0 /\ top.fn = fn /\ top.pc = pc

InvPut(inv, table, key, oid) ==
  {e \in inv : ~(e[1] = table /\ e[2] = key)} \cup {<<table, key, oid>>}

\* the top call returns, and a failure makes its caller drop the links and
\* members it has not crawled yet
Return_abort(progOut, err, outcome) ==
  /\ ret' = [fn |-> top.fn, OID |-> top.OID, progIn |-> top.progIn,
             alottedWork |-> top.alottedWork, progOut |-> progOut,
             err |-> err, outcome |-> outcome,
             nchild |-> top.nchild, allocs |-> top.allocs]
  /\ progress' = progOut
  /\ stack' =
       IF Len(stack) = 1 THEN <<>>
       ELSE LET caller == stack[Len(stack) - 1]
                c2 == IF outcome # "ok"
                      THEN [caller EXCEPT !.foundErr = TRUE, !.links = {},
                                          !.members = <<>>]
                      ELSE caller
            IN Append(SubSeq(stack, 1, Len(stack) - 2), c2)

\* the top call returns progOut (and err) to its caller
Return(progOut, err, outcome) ==
  /\ ret' = [fn |-> top.fn, OID |-> top.OID, progIn |-> top.progIn,
             alottedWork |-> top.alottedWork, progOut |-> progOut,
             err |-> err, outcome |-> outcome,
             nchild |-> top.nchild, allocs |-> top.allocs]
  /\ progress' = progOut
  /\ stack' =
       IF Len(stack) = 1 THEN <<>>
       ELSE LET caller == stack[Len(stack) - 1]
                c2 == IF caller.fn = "getAllSystemInfo" /\ err # NoError
                      THEN [caller EXCEPT !.foundErr = TRUE] ELSE caller
            IN Append(SubSeq(stack, 1, Len(stack) - 2), c2)

\* the number of getResourceDetails calls that are active
Nesting ==
  Cardinality({i \in 1..Len(stack) : stack[i].fn = "getResourceDetails"})

\* the top call, now f, calls child
Call(f, child) ==
  /\ child.fn = "getResourceDetails" => Nesting < MaxDepth
  /\ stack' = Append(Append(SubSeq(stack, 1, Len(stack) - 1), f), child)

SetTop(f) == stack' = Append(SubSeq(stack, 1, Len(stack) - 1), f)

SetError(msg, code, statusMessage, args) ==
  hErr' = [ErrorMessage |-> msg, StatusCode |-> code,
           StatusMessage |-> statusMessage, MsgArgs |-> args]

\* ------------------------------------------------------ getResourceDetails
\* the path is not marked
markTraversed_skip(traversedLinks, oid) == traversedLinks

\* line 938: h.TraversedLinks[req.OID] = true
markTraversed(traversedLinks, oid) == traversedLinks \cup {oid}

\* lines 937-1000: mark visited, fetch, parse, store, extract the links
\* strings.Join(segments, "/"): the path as the string the code handles
RECURSIVE PathString(_)
PathString(p) ==
  IF Len(p) = 1
  THEN p[1]
  ELSE PathString(SubSeq(p, 1, Len(p) - 1)) \o "/" \o p[Len(p)]

\* line 939: "error while trying to get the "+req.OID+" details: "
detailsMessage(oid) ==
  "error while trying to get the " \o PathString(oid) \o " details: "

getResourceDetails_fetch ==
  /\ Running("getResourceDetails", "call")
  /\ UNCHANGED aside
  /\ TraversedLinks' = markTraversed(TraversedLinks, top.OID)
  /\ fetches' = [fetches EXCEPT ![top.OID] = @ + 1]
  /\ \E res \in crawlContact(top.OID, detailsMessage(top.OID)) :
       IF res.err # NoError
       THEN /\ SetError(res.err, res.resp.StatusCode, res.resp.StatusMessage,
                        res.resp.MsgArgs)
            /\ Return(progress, res.err, "fetchErr")
            /\ UNCHANGED InventoryData
       ELSE IF ~jsonValid(res.body)
       THEN /\ SetError(<<"error while trying unmarshal : ">>, 500,
                        InternalError, hErr.MsgArgs)
            /\ Return(progress, <<"unmarshal">>, "parseErr")
            /\ UNCHANGED InventoryData
       ELSE \E d \in Documents :
            /\ InventoryData' =
                 InvPut(InventoryData, getResourceName(top.OID, d.Members),
                        resourceKey(top.OID, top.SystemID, DeviceUUID), top.OID)
            /\ SetTop([top EXCEPT !.pc = "loop", !.links = d.links,
                                  !.nlinks = Cardinality(d.links)])
            /\ UNCHANGED <<hErr, progress, ret>>
  /\ UNCHANGED <<input, SystemURL, saved, store>>

\* lines 1002-1013: one iteration of the loop over retrievalLinks
getResourceDetails_link ==
  /\ Running("getResourceDetails", "loop")
  /\ UNCHANGED aside
  /\ \E oid \in top.links :
       LET rest == [top EXCEPT !.links = @ \ {oid}] IN
       IF checkRetrieval(oid, top.OID, TraversedLinks)
       THEN LET work == estimatedWork(top.alottedWork, top.nlinks) IN
            Call([rest EXCEPT !.nchild = @ + 1, !.allocs = @ \cup {work}],
                 Frame("getResourceDetails", TrimSuffix(oid), top.OID,
                       top.SystemID, work, progress))
       ELSE SetTop(rest)
  /\ UNCHANGED <<input, progress, TraversedLinks, InventoryData, SystemURL,
                 hErr, fetches, saved, ret, store>>

\* lines 1014-1015
getResourceDetails_return ==
  /\ Running("getResourceDetails", "loop")
  /\ UNCHANGED aside
  /\ top.links = {}
  /\ Return(addWork(progress, top.alottedWork), NoError, "ok")
  /\ UNCHANGED <<input, TraversedLinks, InventoryData, SystemURL, hErr,
                 fetches, saved, store>>

\* ----------------------------------------------------------- getSystemInfo
\* the Id of a resource is the last segment of its path
docId(oid) == oid[Len(oid)]

\* the system document is put into InventoryData before the index is asked
storeSystem_early(duplicate, inv, key, oid) ==
  InvPut(inv, "ComputerSystem", key, oid)

\* lines 663-685: the document reaches InventoryData (line 685) only after
\* the duplicate check has let the call pass (return at line 680)
storeSystem(duplicate, inv, key, oid) ==
  IF duplicate THEN inv ELSE InvPut(inv, "ComputerSystem", key, oid)

\* lines 631-693: fetch, parse, duplicate check, store, extract and filter
getSystemInfo_fetch ==
  /\ Running("getSystemInfo", "call")
  /\ UNCHANGED aside
  /\ fetches' = [fetches EXCEPT ![top.OID] = @ + 1]
  /\ \E res \in crawlContact(top.OID, "error while trying to get system collection details: ") :
       IF res.err # NoError
       THEN /\ SetError(res.err, res.resp.StatusCode, res.resp.StatusMessage,
                        hErr.MsgArgs)
            /\ Return(progress, res.err, "fetchErr")
            /\ UNCHANGED <<InventoryData, TraversedLinks, SystemURL>>
       ELSE IF ~jsonValid(res.body)
       THEN /\ SetError(<<"error while trying unmarshal response body: ">>,
                        500, InternalError, hErr.MsgArgs)
            /\ Return(progress, <<"unmarshal">>, "parseErr")
            /\ UNCHANGED <<InventoryData, TraversedLinks, SystemURL>>
       ELSE \E d \in Documents, index \in {"none", "error", "indexed"} :
            /\ IF ~input.UpdateFlag /\ index = "error"
               THEN /\ SetError(hErr.ErrorMessage, 500, InternalError,
                                hErr.MsgArgs)
                    /\ Return(progress, <<"GetString">>, "dbErr")
                    /\ UNCHANGED <<InventoryData, TraversedLinks, SystemURL>>
               ELSE IF ~input.UpdateFlag /\ index = "indexed"
               THEN /\ SetError(<<"Resource already exists">>, 409,
                                ResourceAlreadyExists,
                                <<"ComputerSystem", "ComputerSystem",
                                  "ComputerSystem">>)
                    /\ Return(progress, <<"Resource already exists">>,
                              "duplicate")
                    /\ InventoryData' =
                         storeSystem(TRUE, InventoryData,
                                     keyFormation(top.OID, docId(top.OID),
                                                  DeviceUUID), top.OID)
                    /\ UNCHANGED <<TraversedLinks, SystemURL>>
               ELSE LET oid == top.OID
                        oidKey == keyFormation(oid, docId(oid), DeviceUUID)
                        visited == TraversedLinks \cup {top.OID}
                        links == removeRetrievalLinks(d.links, oid,
                                   SkipResourceListUnderSystem, visited)
                    IN /\ InventoryData' = storeSystem(FALSE, InventoryData,
                                                       oidKey, top.OID)
                       /\ TraversedLinks' = visited
                       /\ SystemURL' = Append(SystemURL, oidKey)
                       /\ SetTop([top EXCEPT !.pc = "loop", !.oid = oid,
                                    !.SystemID = docId(oid), !.links = links,
                                    !.nlinks = Cardinality(links),
                                    !.doc = d.links])
                       /\ UNCHANGED <<hErr, progress, ret>>
  /\ UNCHANGED <<input, saved, store>>

\* lines 694-700: one iteration of the loop over the surviving links
getSystemInfo_link ==
  /\ Running("getSystemInfo", "loop")
  /\ UNCHANGED aside
  /\ \E resourceOID \in top.links :
       LET work == estimatedWork(top.alottedWork, top.nlinks) IN
       Call([top EXCEPT !.links = @ \ {resourceOID}, !.nchild = @ + 1,
                        !.allocs = @ \cup {work}],
            Frame("getResourceDetails", TrimSuffix(resourceOID), top.oid,
                  top.SystemID, work, progress))
  /\ UNCHANGED <<input, progress, TraversedLinks, InventoryData, SystemURL,
                 hErr, fetches, saved, ret, store>>

\* lines 701-725: save the inventory and the search index
getSystemInfo_save ==
  /\ Running("getSystemInfo", "loop")
  /\ UNCHANGED aside
  /\ top.links = {}
  /\ \E saveOK \in BOOLEAN, indexOK \in BOOLEAN :
       IF ~saveOK
       THEN /\ SetError(<<"error while trying to save data: ">>, 500,
                        InternalError, hErr.MsgArgs)
            /\ Return(progress, <<"save">>, "saveErr")
            /\ UNCHANGED saved
       ELSE IF ~indexOK
       THEN /\ SetError(<<"error while trying save index values: ">>, 500,
                        InternalError, hErr.MsgArgs)
            /\ Return(progress, <<"index">>, "saveErr")
            /\ saved' = [saved EXCEPT !.inventory = @ \cup InventoryData]
       ELSE /\ Return(progress, NoError, "ok")
            /\ saved' = [inventory |-> saved.inventory \cup InventoryData,
                         index |-> saved.index \cup
                           {keyFormation(top.oid, top.SystemID, DeviceUUID)}]
            /\ UNCHANGED hErr
  /\ UNCHANGED <<input, TraversedLinks, InventoryData, SystemURL, fetches, store>>

\* --------------------------------------------------------- getIndivdualInfo
\* lines 891-926
getIndivdualInfo_fetch ==
  /\ Running("getIndivdualInfo", "call")
  /\ UNCHANGED aside
  /\ fetches' = [fetches EXCEPT ![top.OID] = @ + 1]
  /\ \E res \in crawlContact(top.OID, "error while trying to get details: ") :
       IF res.err # NoError
       THEN /\ SetError(res.err, res.resp.StatusCode, res.resp.StatusMessage,
                        hErr.MsgArgs)
            /\ Return(progress, res.err, "fetchErr")
            /\ UNCHANGED <<InventoryData, TraversedLinks>>
       ELSE IF ~jsonValid(res.body)
       THEN /\ SetError(<<"error while trying unmarshal response body: ">>,
                        500, InternalError, hErr.MsgArgs)
            /\ Return(progress, <<"unmarshal">>, "parseErr")
            /\ UNCHANGED <<InventoryData, TraversedLinks>>
       ELSE \E d \in Documents :
            LET oid == top.OID
                oidKey == keyFormation(oid, docId(oid), DeviceUUID)
                visited == TraversedLinks \cup {top.OID}
                links == removeRetrievalLinks(d.links, oid,
                           input.resourceList, visited)
            IN /\ InventoryData' = InvPut(InventoryData,
                                     getResourceName(top.OID, FALSE), oidKey,
                                     top.OID)
               /\ TraversedLinks' = visited
               /\ SetTop([top EXCEPT !.pc = "loop", !.oid = oid,
                            !.SystemID = docId(oid), !.links = links,
                            !.nlinks = Cardinality(links)])
               /\ UNCHANGED <<hErr, progress, ret>>
  /\ UNCHANGED <<input, SystemURL, saved, store>>

\* lines 927-933
getIndivdualInfo_link ==
  /\ Running("getIndivdualInfo", "loop")
  /\ UNCHANGED aside
  /\ \E resourceOID \in top.links :
       LET work == estimatedWork(top.alottedWork, top.nlinks) IN
       Call([top EXCEPT !.links = @ \ {resourceOID}, !.nchild = @ + 1,
                        !.allocs = @ \cup {work}],
            Frame("getResourceDetails", TrimSuffix(resourceOID), top.oid,
                  top.SystemID, work, progress))
  /\ UNCHANGED <<input, progress, TraversedLinks, InventoryData, SystemURL,
                 hErr, fetches, saved, ret, store>>

\* line 934
getIndivdualInfo_return ==
  /\ Running("getIndivdualInfo", "loop")
  /\ UNCHANGED aside
  /\ top.links = {}
  /\ Return(progress, NoError, "ok")
  /\ UNCHANGED <<input, TraversedLinks, InventoryData, SystemURL, hErr,
                 fetches, saved, store>>

\* ------------------------------------------- getAllSystemInfo, getAllRootInfo
\* the member lists a collection can have
MemberLists(members) ==
  {ms \in UNION {[1..k -> members] : k \in 0..MaxMembers} :
     \A i, j \in 1..Len(ms) : i # j => ms[i] # ms[j]}

\* lines 376-403
getAllSystemInfo_fetch ==
  /\ Running("getAllSystemInfo", "call")
  /\ UNCHANGED aside
  /\ fetches' = [fetches EXCEPT ![top.OID] = @ + 1]
  /\ \E res \in crawlContact(top.OID, "error while trying to get system collection details: ") :
       IF res.err # NoError
       THEN /\ SetError(res.err, res.resp.StatusCode, res.resp.StatusMessage,
                        res.resp.MsgArgs)
            /\ Return(progress, res.err, "fetchErr")
            /\ UNCHANGED SystemURL
       ELSE IF ~jsonValid(res.body)
       THEN /\ SetError(<<"error while trying unmarshal systems collection: ">>,
                        500, InternalError, hErr.MsgArgs)
            /\ Return(progress, <<"unmarshal">>, "parseErr")
            /\ SystemURL' = <<>>
       ELSE \E ms \in MemberLists(SystemMembers) :
            /\ SetTop([top EXCEPT !.pc = "loop", !.members = ms,
                                  !.nmembers = Len(ms)])
            /\ SystemURL' = <<>>
            /\ UNCHANGED <<hErr, progress, ret>>
  /\ UNCHANGED <<input, TraversedLinks, InventoryData, saved, store>>

\* lines 407-416: one iteration of the loop over the members
getAllSystemInfo_member ==
  /\ Running("getAllSystemInfo", "loop")
  /\ UNCHANGED aside
  /\ top.members # <<>>
  /\ LET work == estimatedWork(top.alottedWork, top.nmembers) IN
     Call([top EXCEPT !.members = Tail(@), !.nchild = @ + 1,
                      !.allocs = @ \cup {work}],
          Frame("getSystemInfo", TrimSuffix(Head(top.members)), top.ParentOID,
                top.SystemID, work, progress))
  /\ UNCHANGED <<input, progress, TraversedLinks, InventoryData, SystemURL,
                 hErr, fetches, saved, ret, store>>

\* lines 417-420
getAllSystemInfo_return ==
  /\ Running("getAllSystemInfo", "loop")
  /\ UNCHANGED aside
  /\ top.members = <<>>
  /\ Return(progress,
            IF top.foundErr
            THEN <<"error : get system collection members failed for [">>
            ELSE NoError,
            IF top.foundErr THEN "memberErr" ELSE "ok")
  /\ UNCHANGED <<input, TraversedLinks, InventoryData, SystemURL, hErr,
                 fetches, saved, store>>

\* lines 590-617
getAllRootInfo_fetch ==
  /\ Running("getAllRootInfo", "call")
  /\ UNCHANGED aside
  /\ fetches' = [fetches EXCEPT ![top.OID] = @ + 1]
  /\ \E res \in crawlContact(top.OID, "error while trying to get the collection details: ") :
       IF res.err # NoError
       THEN /\ SetError(res.err, res.resp.StatusCode, res.resp.StatusMessage,
                        res.resp.MsgArgs)
            /\ Return(progress, res.err, "fetchErr")
       ELSE IF ~jsonValid(res.body)
       THEN /\ SetError(<<"error while trying unmarshal ">>, 500,
                        InternalError, hErr.MsgArgs)
            /\ Return(progress, <<"unmarshal">>, "parseErr")
       ELSE \E ms \in MemberLists(ChassisMembers) :
            /\ SetTop([top EXCEPT !.pc = "loop", !.members = ms,
                                  !.nmembers = Len(ms)])
            /\ UNCHANGED <<hErr, progress, ret>>
  /\ UNCHANGED <<input, TraversedLinks, InventoryData, SystemURL, saved, store>>

\* lines 618-627: one iteration of the loop over the members
getAllRootInfo_member ==
  /\ Running("getAllRootInfo", "loop")
  /\ UNCHANGED aside
  /\ top.members # <<>>
  /\ LET work == estimatedWork(top.alottedWork, top.nmembers) IN
     Call([top EXCEPT !.members = Tail(@), !.nchild = @ + 1,
                      !.allocs = @ \cup {work}],
          Frame("getIndivdualInfo", TrimSuffix(Head(top.members)),
                top.ParentOID, top.SystemID, work, progress))
  /\ UNCHANGED <<input, progress, TraversedLinks, InventoryData, SystemURL,
                 hErr, fetches, saved, ret, store>>

\* line 628
getAllRootInfo_return ==
  /\ Running("getAllRootInfo", "loop")
  /\ UNCHANGED aside
  /\ top.members = <<>>
  /\ Return(progress, NoError, "ok")
  /\ UNCHANGED <<input, TraversedLinks, InventoryData, SystemURL, hErr,
                 fetches, saved, store>>

\* -------------------------------------------------------------- registries
\* what a member of the Registries collection can be: nil, an object
\* without "@odata.id", or a link
NilMember == <<"nil">>
NoOdataID == <<"no @odata.id">>
RegistryMembers == {NilMember, NoOdataID, REG1}

\* the registry file info a plugin can serve: whether it has a "Registry"
\* field, whether that file is already stored, and the Uri of its "en" location
RegistryInfos ==
  [Registry : BOOLEAN, exists : BOOLEAN, uri : {<<>>, REGFILE}]

\* lines 424-461
getAllRegistries_fetch ==
  /\ Running("getAllRegistries", "call")
  /\ UNCHANGED aside
  /\ fetches' = [fetches EXCEPT ![top.OID] = @ + 1]
  /\ \E res \in crawlContact(top.OID, "error while trying to get the Registries collection  details: ") :
       IF res.err # NoError
       THEN /\ SetError(res.err, res.resp.StatusCode, res.resp.StatusMessage,
                        hErr.MsgArgs)
            /\ Return(progress, res.err, "fetchErr")
       ELSE IF ~jsonValid(res.body)
       THEN /\ SetError(<<"error while trying unmarshal Registries collection: ">>,
                        500, InternalError, hErr.MsgArgs)
            /\ Return(progress, <<"unmarshal">>, "parseErr")
       ELSE \E ms \in MemberLists(RegistryMembers) :
            /\ SetTop([top EXCEPT !.pc = "loop", !.members = ms,
                                  !.nmembers = Len(ms)])
            /\ UNCHANGED <<hErr, progress, ret>>
  /\ UNCHANGED <<input, TraversedLinks, InventoryData, SystemURL, saved, store>>

\* lines 463-477: one iteration of the loop over the members
getAllRegistries_member ==
  /\ Running("getAllRegistries", "loop")
  /\ UNCHANGED aside
  /\ top.members # <<>>
  /\ LET work == estimatedWork(top.alottedWork, top.nmembers)
         object == Head(top.members)
         rest == [top EXCEPT !.members = Tail(@)]
     IN IF object \in {NilMember, NoOdataID}
        THEN /\ progress' = addWork(progress, work)
             /\ SetTop(rest)
        ELSE /\ Call([rest EXCEPT !.nchild = @ + 1, !.allocs = @ \cup {work}],
                     Frame("getRegistriesInfo", object, top.ParentOID,
                           top.SystemID, work, progress))
             /\ UNCHANGED progress
  /\ UNCHANGED <<input, TraversedLinks, InventoryData, SystemURL, hErr,
                 fetches, saved, ret, store>>

\* line 478
getAllRegistries_return ==
  /\ Running("getAllRegistries", "loop")
  /\ UNCHANGED aside
  /\ top.members = <<>>
  /\ Return(progress, NoError, "ok")
  /\ UNCHANGED <<input, TraversedLinks, InventoryData, SystemURL, hErr,
                 fetches, saved, store>>

\* lines 481-571: getRegistriesInfo with the getRegistryFile call it makes
getRegistriesInfo_run ==
  /\ Running("getRegistriesInfo", "call")
  /\ UNCHANGED aside
  /\ \E res \in crawlContact(top.OID, "error while trying to get Registry fileinfo details: ") :
       IF res.err # NoError
       THEN /\ SetError(res.err, res.resp.StatusCode, res.resp.StatusMessage,
                        hErr.MsgArgs)
            /\ Return(progress, NoError, "fetchErr")
            /\ fetches' = [fetches EXCEPT ![top.OID] = @ + 1]
            /\ UNCHANGED InventoryData
       ELSE IF ~jsonValid(res.body)
       THEN /\ SetError(<<"error while trying unmarshal response body: ">>,
                        500, InternalError, hErr.MsgArgs)
            /\ Return(progress, NoError, "parseErr")
            /\ fetches' = [fetches EXCEPT ![top.OID] = @ + 1]
            /\ UNCHANGED InventoryData
       ELSE \E info \in RegistryInfos :
            IF ~info.Registry \/ info.exists \/ info.uri = <<>>
            THEN /\ Return(addWork(progress, top.alottedWork), NoError, "ok")
                 /\ fetches' = [fetches EXCEPT ![top.OID] = @ + 1]
                 /\ UNCHANGED <<InventoryData, hErr>>
            ELSE \E file \in crawlContact(info.uri, "error while trying to get Registry file: ") :
                 /\ fetches' = [fetches EXCEPT ![top.OID] = @ + 1,
                                               ![info.uri] = @ + 1]
                 /\ Return(addWork(progress, top.alottedWork), NoError, "ok")
                 /\ IF file.err # NoError
                    THEN /\ SetError(file.err, file.resp.StatusCode,
                                     file.resp.StatusMessage, hErr.MsgArgs)
                         /\ UNCHANGED InventoryData
                    ELSE /\ InventoryData' =
                              InvPut(InventoryData, "Registries",
                                     <<docId(top.OID) \o ".json">>, info.uri)
                         /\ UNCHANGED hErr
  /\ UNCHANGED <<input, TraversedLinks, SystemURL, saved, store>>

\* --------------------------------------------------------------- telemetry
\* largest number of MetricProperties a metric document of the plugin has
MaxProps == 1

\* the metric properties a plugin document can name
SP == <<"", "redfish", "v1", "Systems", "1", "Processors">>
CP == <<"", "redfish", "v1", "Chassis", "1", "Power">>
OP == <<"", "redfish", "v1", "Fabrics", "1", "Switches">>
Properties == {SP, CP, OP}

PropLists == UNION {[1..k -> Properties] : k \in 0..MaxProps}

\* the metric documents a plugin can serve
MetricDocs == [MetricProperties : PropLists]

SystemUUID == "SystemID"
ChassisUUID == "ChassisID"

\* updateResourceDataWithUUID on one path of the document
updateResourceDataWithUUID(p, uuid) ==
  [i \in 1..Len(p) |->
     IF i > 4 /\ p[i - 3] = "redfish" /\ p[i - 2] = "v1"
        /\ p[i - 1] \in {"Systems", "systems", "Managers", "Chassis", "chassis"}
     THEN uuid \o "." \o p[i]
     ELSE IF i > 3 /\ i < Len(p) /\ p[i - 2] = "redfish" /\ p[i - 1] = "v1"
     THEN (IF p[i] = "systems" THEN "Systems"
           ELSE IF p[i] = "chassis" THEN "Chassis" ELSE p[i])
     ELSE p[i]]

updateDoc(d, uuid) ==
  [MetricProperties |->
     [i \in 1..Len(d.MetricProperties) |->
        updateResourceDataWithUUID(d.MetricProperties[i], uuid)]]

\* strings.Contains(property, "/" + name + "/")
containsSegment(property, name) ==
  \E i \in 2..(Len(property) - 1) : property[i] = name

getUpdatedProperty(property, wildCardName) ==
  LET uuid == property[5]
  IN [property |-> [i \in 1..Len(property) |->
                      IF property[i] = uuid
                      THEN "{" \o wildCardName \o "}" ELSE property[i]],
      uuid |-> uuid]

RECURSIVE scanPresent(_, _, _, _)
scanPresent(val, values, front, rear) ==
  IF front > rear THEN FALSE
  ELSE IF values[front] = val \/ values[rear] = val THEN TRUE
  ELSE scanPresent(val, values, front + 1, rear - 1)

checkWildCardPresent(val, values) ==
  IF Len(values) < 1 THEN FALSE ELSE scanPresent(val, values, 1, Len(values))

checkMetricPropertyPresent(val, values) ==
  IF Len(values) < 1 THEN FALSE ELSE scanPresent(val, values, 1, Len(values))

getEmptyWildCard ==
  <<[Name |-> SystemUUID, Values |-> <<>>],
    [Name |-> ChassisUUID, Values |-> <<>>]>>

\* no document stored (GetResource returns "")
NoData == [none |-> TRUE]

\* does wildcard i take the property (lines 1564 and 1571)
takes(wCard, property) ==
  \/ wCard.Name = SystemUUID /\ containsSegment(property, "Systems")
  \/ wCard.Name = ChassisUUID /\ containsSegment(property, "Chassis")

\* lines 1561-1582: the loop over the metric properties
RECURSIVE formProperties(_, _, _)
formProperties(metricProperties, wildCards, dbMetricProperities) ==
  IF metricProperties = <<>>
  THEN [wildCards |-> wildCards, dbMetricProperities |-> dbMetricProperities]
  ELSE LET mProperty == Head(metricProperties)
           hits == {i \in 1..Len(wildCards) : takes(wildCards[i], mProperty)}
           i == CHOOSE k \in hits : \A j \in hits : k <= j
           upd == getUpdatedProperty(mProperty, wildCards[i].Name)
           property == IF hits = {} THEN mProperty ELSE upd.property
           cards == IF hits = {} \/ checkWildCardPresent(upd.uuid, wildCards[i].Values)
                    THEN wildCards
                    ELSE [wildCards EXCEPT ![i].Values = Append(@, upd.uuid)]
           props == IF checkMetricPropertyPresent(property, dbMetricProperities)
                    THEN dbMetricProperities
                    ELSE Append(dbMetricProperities, property)
       IN formProperties(Tail(metricProperties), cards, props)

nonEmptyCard(w) == Len(w.Values) > 0

\* formWildCard: dbData is the stored document (NoData when none), and
\* resourceDataMap the document fetched and rewritten with the device UUID
formWildCard(dbData, resourceDataMap) ==
  IF dbData # NoData /\ dbData.Wildcards = <<>>
  THEN [err |-> TRUE, doc |-> NoData]
  ELSE LET wildCards == IF dbData = NoData THEN getEmptyWildCard
                        ELSE dbData.Wildcards
           dbProps == IF dbData = NoData THEN <<>> ELSE dbData.MetricProperties
           r == formProperties(resourceDataMap.MetricProperties, wildCards,
                               dbProps)
           wCards == SelectSeq(r.wildCards, nonEmptyCard)
       IN [err |-> FALSE,
           doc |-> IF Len(wCards) > 0
                   THEN [Wildcards |-> wCards,
                         MetricProperties |-> r.dbMetricProperities]
                   ELSE [Wildcards |-> <<>>,
                         MetricProperties |-> resourceDataMap.MetricProperties]]

\* lines 1453-1465
RECURSIVE dedupe(_, _)
dedupe(links, result) ==
  IF links = <<>> THEN result
  ELSE dedupe(Tail(links),
              IF \E i \in 1..Len(result) : result[i] = Head(links)
              THEN result ELSE Append(result, Head(links)))

\* the two lists appended, without dropping anything
getSuperSet_concat(telemetryInfo, resourceData) == telemetryInfo \o resourceData

getSuperSet(telemetryInfo, resourceData) ==
  dedupe(telemetryInfo \o resourceData, <<>>)

NoTele == <<>>
NoEmb == [pc |-> "idle"]
NoBranches == [pc |-> "idle"]
NoMonitor == [pc |-> "idle"]
NoCalc == [pc |-> "idle"]

NoStore == [collection |-> [c \in TeleCollections |-> NoData],
            metric |-> [m \in TeleMembers |-> NoData],
            active |-> {}]

\* what an earlier discovery of another device can have left for a metric
PriorDocs ==
  {NoData} \cup {formWildCard(NoData, updateDoc(d, "d0")).doc : d \in MetricDocs}

TeleResponses == CrawlResponses \cup {Response(202, DocBody, "/task/1", "")}

teleContact(oid, errorMessage) ==
  {contactPlugin([OID |-> oid, StatusPoll |-> poll, Plugin |-> ThePlugin],
                 errorMessage, r1, healthy, r2, readOK) :
     r1 \in TeleResponses, r2 \in TeleResponses, poll \in BOOLEAN,
     healthy \in BOOLEAN, readOK \in {TRUE}}

membersOf(oid) == IF oid = MetricDefinitions THEN {M1, M2} ELSE {R1}

\* the fetched body is saved as it is, whatever is stored
telemetryData_fetched(data, ms) == [Members |-> ms, MembersCount |-> Len(ms)]

\* lines 1420-1424 and 1435-1441: the collection handed to GenericSave, for
\* the stored collection that GetResource returned (NoData when it returned
\* an error) and the members of the fetched one
telemetryData(data, ms) ==
  IF data = NoData
  THEN [Members |-> ms, MembersCount |-> Len(ms)]
  ELSE [Members |-> getSuperSet(data.Members, ms),
        MembersCount |-> Len(getSuperSet(data.Members, ms))]

\* lines 1405-1451 up to the call of getIndividualTelemetryInfo
storeTelemetryCollectionInfo_fetch ==
  /\ Running("storeTelemetryCollectionInfo", "call")
  /\ UNCHANGED aside
  /\ fetches' = [fetches EXCEPT ![top.OID] = @ + 1]
  /\ \E res \in teleContact(top.OID, "error while trying to get the details: ") :
       IF res.err # NoError
       THEN Return(progress, res.err, "fetchErr") /\ UNCHANGED store
       ELSE IF res.resp.StatusCode # 200
       THEN Return(progress, <<res.resp.StatusMessage>>, "statusErr")
            /\ UNCHANGED store
       ELSE IF ~jsonValid(res.body)
       THEN Return(progress, <<"unmarshal">>, "parseErr") /\ UNCHANGED store
       ELSE \E ms \in MemberLists(membersOf(top.OID)),
               dbErr \in BOOLEAN, saveOK \in BOOLEAN :
            LET data == IF dbErr THEN NoData ELSE store.collection[top.OID]
                read == [top EXCEPT !.pc = "members",
                                    !.doc = [data |-> data, Members |-> ms]]
            IN IF ~saveOK
               THEN Return(progress, <<"save">>, "saveErr") /\ UNCHANGED store
               ELSE /\ store' = [store EXCEPT !.collection[top.OID] =
                                                 telemetryData(data, ms)]
                    /\ IF docId(top.OID) \o "Collection" # "MetricReportsCollection"
                       THEN Call([read EXCEPT !.nchild = 1,
                                              !.allocs = {top.alottedWork}],
                                 [Frame("getIndividualTelemetryInfo", top.OID,
                                        <<>>, "", top.alottedWork, progress)
                                    EXCEPT !.pc = "loop", !.members = ms,
                                           !.nmembers = Len(ms)])
                       ELSE SetTop(read)
                    /\ UNCHANGED <<progress, ret>>
  /\ UNCHANGED <<input, TraversedLinks, InventoryData, SystemURL, hErr, saved>>

\* lines 1429 and 1450
storeTelemetryCollectionInfo_return ==
  /\ Running("storeTelemetryCollectionInfo", "members")
  /\ UNCHANGED aside
  /\ Return(progress, NoError, "ok")
  /\ UNCHANGED <<input, TraversedLinks, InventoryData, SystemURL, hErr,
                 fetches, saved, store>>

\* lines 1469-1473: one iteration of the loop over the members
getIndividualTelemetryInfo_member ==
  /\ Running("getIndividualTelemetryInfo", "loop")
  /\ UNCHANGED aside
  /\ top.members # <<>>
  /\ LET work == estimatedWork(top.alottedWork, top.nmembers) IN
     Call([top EXCEPT !.members = Tail(@), !.nchild = @ + 1,
                      !.allocs = @ \cup {work}],
          Frame("getTeleInfo", Head(top.members), <<>>, "", work, progress))
  /\ UNCHANGED <<input, progress, TraversedLinks, InventoryData, SystemURL,
                 hErr, fetches, saved, ret, store>>

\* line 1474
getIndividualTelemetryInfo_return ==
  /\ Running("getIndividualTelemetryInfo", "loop")
  /\ UNCHANGED aside
  /\ top.members = <<>>
  /\ Return(progress, NoError, "ok")
  /\ UNCHANGED <<input, TraversedLinks, InventoryData, SystemURL, hErr,
                 fetches, saved, store>>

\* lines 1477-1492: fetch, rewrite with the device UUID, form the wildcards
getTeleInfo_fetch ==
  /\ Running("getTeleInfo", "call")
  /\ UNCHANGED aside
  /\ fetches' = [fetches EXCEPT ![top.OID] = @ + 1]
  /\ \E res \in teleContact(top.OID, "error while trying to get details: ") :
       IF res.err # NoError
       THEN Return(progress, NoError, "fetchErr")
       ELSE IF res.resp.StatusCode # 200
       THEN Return(progress, NoError, "statusErr")
       ELSE IF ~jsonValid(res.body)
       THEN Return(progress, NoError, "parseErr")
       ELSE \E d \in MetricDocs, dbErr \in BOOLEAN :
            LET data == IF dbErr THEN NoData ELSE store.metric[top.OID]
                r == formWildCard(data, updateDoc(d, DeviceUUID))
            IN IF r.err
               THEN Return(progress, NoError, "wildcardErr")
               ELSE /\ SetTop([top EXCEPT !.pc = "check", !.doc = r.doc])
                    /\ UNCHANGED <<progress, ret>>
  /\ UNCHANGED <<input, TraversedLinks, InventoryData, SystemURL, hErr, saved,
                 store>>

\* lines 1494-1502: is a request for this metric already active
getTeleInfo_check ==
  /\ Running("getTeleInfo", "check")
  /\ UNCHANGED aside
  /\ \E dErr \in BOOLEAN :
       IF dErr THEN Return(progress, NoError, "dbErr")
       ELSE IF top.OID \in store.active
       THEN Return(progress, NoError, "active")
       ELSE SetTop([top EXCEPT !.pc = "lock"]) /\ UNCHANGED <<progress, ret>>
  /\ UNCHANGED <<input, TraversedLinks, InventoryData, SystemURL, hErr,
                 fetches, saved, store>>

\* lines 1503-1508: record the active request
getTeleInfo_lock ==
  /\ Running("getTeleInfo", "lock")
  /\ UNCHANGED aside
  /\ \E saveOK \in BOOLEAN :
       IF ~saveOK
       THEN Return(progress, NoError, "lockErr") /\ UNCHANGED store
       ELSE /\ store' = [store EXCEPT !.active = @ \cup {top.OID}]
            /\ SetTop([top EXCEPT !.pc = "save"])
            /\ UNCHANGED <<progress, ret>>
  /\ UNCHANGED <<input, TraversedLinks, InventoryData, SystemURL, hErr,
                 fetches, saved>>

\* lines 1510-1523: persist the document, then the deferred DeleteMetricRequest
getTeleInfo_save ==
  /\ Running("getTeleInfo", "save")
  /\ UNCHANGED aside
  /\ \E saveOK \in BOOLEAN, deleteOK \in BOOLEAN :
       /\ store' = [store EXCEPT
                      !.metric[top.OID] = IF saveOK THEN top.doc ELSE @,
                      !.active = IF deleteOK THEN @ \ {top.OID} ELSE @]
       /\ IF saveOK
          THEN Return(addWork(progress, top.alottedWork), NoError, "ok")
          ELSE Return(progress, NoError, "saveErr")
  /\ UNCHANGED <<input, TraversedLinks, InventoryData, SystemURL, hErr,
                 fetches, saved>>

\* ------------------------------------------------- concurrent getTeleInfo
\* number of getTeleInfo calls in flight in the fleet
MaxCalls == 2

Callers == 1..MaxCalls

\* a getTeleInfo call on path oid for a device; the last fields record
\* what the call has done: whether the marker existed when it was invoked,
\* whether it called the plugin, created the marker, saved its document and
\* issued DeleteMetricRequest, and whether CheckMetricRequest found the marker
TeleCall(oid, uuid) ==
  [pc |-> "call", OID |-> oid, DeviceUUID |-> uuid, doc |-> NoData,
   markerAtCall |-> FALSE, fetched |-> FALSE, created |-> FALSE,
   savedDoc |-> FALSE, deleteIssued |-> FALSE, deleteFailed |-> FALSE,
   found |-> FALSE]

\* the outcomes of the plugin call of getTeleInfo: it failed (error, a status
\* other than 200, a body that is no JSON object) or it gave a metric document
teleFetched(oid) ==
  {[ok |-> res.err = NoError /\ res.resp.StatusCode = 200 /\ jsonValid(res.body)] :
     res \in teleContact(oid, "error while trying to get details: ")}

\* lines 1477-1492: fetch, rewrite with the device UUID, read the stored
\* document and form the wildcards
teleFetch(p) ==
  /\ tele[p].pc = "call"
  /\ \E f \in teleFetched(tele[p].OID) :
       LET c == [tele[p] EXCEPT !.fetched = TRUE,
                                !.markerAtCall = tele[p].OID \in store.active]
       IN IF ~f.ok
          THEN tele' = [tele EXCEPT ![p] = [c EXCEPT !.pc = "done"]]
          ELSE \E d \in MetricDocs :
               LET r == formWildCard(store.metric[c.OID],
                                     updateDoc(d, c.DeviceUUID))
               IN IF r.err
                  THEN tele' = [tele EXCEPT ![p] = [c EXCEPT !.pc = "done"]]
                  ELSE tele' = [tele EXCEPT ![p] = [c EXCEPT !.pc = "check",
                                                            !.doc = r.doc]]
  /\ UNCHANGED <<input, stack, progress, TraversedLinks, InventoryData,
                 SystemURL, hErr, fetches, saved, ret, store, plugin, monitor,
                 calc, fleet, emb, branches>>

\* the call that found the marker deletes it on its way out
markerFound_delete(active, oid) == active \ {oid}

\* lines 1499-1502: the return on an existing marker comes before the defer
\* of line 1510 is registered: the markers are as they were
markerFound(active, oid) == active

\* lines 1494-1502: CheckMetricRequest
teleCheck(p) ==
  /\ tele[p].pc = "check"
  /\ \E dErr \in BOOLEAN :
       LET exist == ~dErr /\ tele[p].OID \in store.active IN
       /\ IF dErr \/ exist
          THEN tele' = [tele EXCEPT ![p].pc = "done", ![p].doc = NoData,
                                   ![p].found = exist]
          ELSE tele' = [tele EXCEPT ![p].pc = "lock"]
       /\ store' = [store EXCEPT !.active =
                       IF exist THEN markerFound(@, tele[p].OID) ELSE @]
  /\ UNCHANGED <<input, stack, progress, TraversedLinks, InventoryData,
                 SystemURL, hErr, fetches, saved, ret, plugin, monitor,
                 calc, fleet, emb, branches>>

\* lines 1503-1508: GenericSave(nil, "ActiveMetricRequest", req.OID)
teleLock(p) ==
  /\ tele[p].pc = "lock"
  /\ \E saveOK \in BOOLEAN :
       IF saveOK
       THEN /\ store' = [store EXCEPT !.active = @ \cup {tele[p].OID}]
            /\ tele' = [tele EXCEPT ![p].pc = "save", ![p].created = TRUE]
       ELSE /\ tele' = [tele EXCEPT ![p].pc = "done", ![p].doc = NoData]
            /\ UNCHANGED store
  /\ UNCHANGED <<input, stack, progress, TraversedLinks, InventoryData,
                 SystemURL, hErr, fetches, saved, ret, plugin, monitor, calc,
                 fleet, emb, branches>>

\* the deferred DeleteMetricRequest is skipped when the save failed
afterSave_leak(saveOK) == IF saveOK THEN "release" ELSE "done"

\* lines 1510-1523: the deferred DeleteMetricRequest runs after the save,
\* whatever its result
afterSave(saveOK) == "release"

\* lines 1517-1523: GenericSave of the document
teleSave(p) ==
  /\ tele[p].pc = "save"
  /\ \E saveOK \in BOOLEAN :
       /\ store' = [store EXCEPT !.metric[tele[p].OID] =
                                   IF saveOK THEN tele[p].doc ELSE @]
       /\ tele' = [tele EXCEPT ![p].pc = afterSave(saveOK),
                               ![p].savedDoc = saveOK, ![p].doc = NoData]
  /\ UNCHANGED <<input, stack, progress, TraversedLinks, InventoryData,
                 SystemURL, hErr, fetches, saved, ret, plugin, monitor, calc,
                 fleet, emb, branches>>

\* lines 1510-1515: the deferred DeleteMetricRequest
teleRelease(p) ==
  /\ tele[p].pc = "release"
  /\ \E deleteOK \in BOOLEAN :
       /\ store' = [store EXCEPT !.active =
                                   IF deleteOK THEN @ \ {tele[p].OID} ELSE @]
       /\ tele' = [tele EXCEPT ![p].pc = "done", ![p].deleteIssued = TRUE,
                               ![p].deleteFailed = ~deleteOK]
  /\ UNCHANGED <<input, stack, progress, TraversedLinks, InventoryData,
                 SystemURL, hErr, fetches, saved, ret, plugin, monitor, calc,
                 fleet, emb, branches>>

\* ---------------------------------------------------------- plugin session
Sessions == <<"", "ODIM", "v1", "Sessions">>
Status == <<"", "ODIM", "v1", "Status">>

\* the HTTP status codes a plugin answers with
StatusCodes == {200, 201, 202, 401, 404, 500}

\* a body naming the southbound root, as every plugin document does
PluginBody == <<"{", "/", "ODIM", "/v1/Systems/1", "}">>

PluginResponses ==
  {ConnErr} \cup {Response(code, PluginBody, "/taskmon/1", "token-1") :
                    code \in StatusCodes}

NoCall == [made |-> FALSE, req |-> <<>>, r1 |-> ConnErr, healthy |-> FALSE,
           r2 |-> ConnErr, readOK |-> FALSE, out |-> <<>>]

\* log: the outbound calls so far; last: the latest contactPlugin, with what
\* the plugin answered and what it returned; login: the one of the login
NoPlugin == [pc |-> "idle", auth |-> "", req |-> <<>>, log |-> <<>>,
             last |-> NoCall, login |-> NoCall, result |-> <<>>,
             FirmwareVersion |-> "", Version |-> "", queueList |-> <<>>]

\* the firmware versions a plugin reports and a variant names
Versions == {"v1.0.0", "v2.0.0"}

\* connection method variants such as Compute:BasicAuth:GRF_v1.0.0, split
\* at ":" and the plugin ID at "_"
Variants ==
  {<<"Compute", auth, <<"GRF", v>>>> :
     auth \in {"XAuthToken", "XAUTHTOKEN", "BasicAuth"}, v \in Versions}

\* lines 1345-1358
getConnectionMethodVariants(connectionMethodVariant) ==
  LET cm == connectionMethodVariant
      firmwareVersion == cm[3]
  IN [PluginType |-> cm[1], PreferredAuthType |-> cm[2],
      PluginID |-> firmwareVersion[1] \o "_" \o firmwareVersion[2],
      FirmwareVersion |-> firmwareVersion[2]]

\* the queue names in the status body (none when EventMessageBus is nil)
QueueLists == {<<>>, <<"q1">>, <<"q1", "q2">>}

\* every reported version is accepted
versionMatches_any(version, firmwareVersion) == TRUE

\* line 1329: statusResponse.Version != cmVariants.FirmwareVersion
versionMatches(version, firmwareVersion) == version = firmwareVersion

\* the outbound calls of one contactPlugin, as the plugin sees them
Calls(req, trace) ==
  [i \in 1..Len(trace) |->
     [fn |-> trace[i], OID |-> req.OID, Method |-> req.HTTPMethodType,
      Token |-> req.Token]]

\* one call of contactPlugin on the request plugin.req
contactPlugin_run ==
  /\ plugin.pc = "contactPlugin"
  /\ \E r1 \in PluginResponses, healthy \in BOOLEAN, r2 \in PluginResponses,
        readOK \in BOOLEAN :
       LET out == contactPlugin(plugin.req, "error: ", r1, healthy, r2, readOK)
       IN plugin' = [plugin EXCEPT
                       !.pc = "done",
                       !.log = @ \o Calls(plugin.req, out.trace),
                       !.last = [made |-> TRUE, req |-> plugin.req, r1 |-> r1,
                                 healthy |-> healthy, r2 |-> r2,
                                 readOK |-> readOK, out |-> out],
                       !.result = out.resp]
  /\ UNCHANGED <<input, stack, progress, TraversedLinks, InventoryData,
                 SystemURL, hErr, fetches, saved, ret, store, tele, monitor,
                 calc, fleet, emb, branches>>

\* line 1295: the session login failed, checkStatus gives up
loginFailed_never(err) == FALSE

loginFailed(err) == err # NoError

\* lines 1285-1306 of checkStatus: opt into status polling, and with
\* XAuthToken log in for a token
checkStatus_login ==
  /\ plugin.pc = "checkStatus"
  /\ IF EqualFold(plugin.auth, "XAuthToken")
     THEN \E r1 \in PluginResponses, healthy \in BOOLEAN,
             r2 \in PluginResponses, readOK \in BOOLEAN :
          LET req == [plugin.req EXCEPT !.StatusPoll = TRUE,
                                        !.HTTPMethodType = "POST",
                                        !.OID = Sessions]
              out == contactPlugin(req, "error while creating the session: ",
                                   r1, healthy, r2, readOK)
              made == [made |-> TRUE, req |-> req, r1 |-> r1, healthy |-> healthy,
                       r2 |-> r2, readOK |-> readOK, out |-> out]
          IN IF loginFailed(out.err)
             THEN plugin' = [plugin EXCEPT
                               !.pc = "done", !.req = req,
                               !.log = @ \o Calls(req, out.trace),
                               !.last = made,
                               !.login = made,
                               !.result = out.resp]
             ELSE plugin' = [plugin EXCEPT
                               !.pc = "status",
                               !.req = [req EXCEPT !.Token = out.second],
                               !.log = @ \o Calls(req, out.trace),
                               !.last = made, !.login = made]
     ELSE plugin' = [plugin EXCEPT
                       !.pc = "status",
                       !.req = [plugin.req EXCEPT !.StatusPoll = TRUE]]
  /\ UNCHANGED <<input, stack, progress, TraversedLinks, InventoryData,
                 SystemURL, hErr, fetches, saved, ret, store, tele, monitor,
                 calc, fleet, emb, branches>>

\* lines 1308-1342 of checkStatus: ask the plugin for its status and compare
\* the firmware version
checkStatus_status ==
  /\ plugin.pc = "status"
  /\ \E r1 \in PluginResponses, healthy \in BOOLEAN, r2 \in PluginResponses,
        readOK \in BOOLEAN, parseOK \in BOOLEAN, version \in Versions,
        queues \in QueueLists :
       LET req == [plugin.req EXCEPT !.HTTPMethodType = "GET", !.OID = Status]
           versionOK == versionMatches(version, plugin.FirmwareVersion)
           out == contactPlugin(req, "error while getting the details: ",
                                r1, healthy, r2, readOK)
           result ==
             IF out.err # NoError THEN out.resp
             ELSE IF ~parseOK
             THEN [StatusCode |-> 500, StatusMessage |-> InternalError,
                   MsgArgs |-> <<>>]
             ELSE IF ~versionOK
             THEN [StatusCode |-> 400,
                   StatusMessage |-> "PropertyValueNotInList",
                   MsgArgs |-> <<"FirmwareVersion">>]
             ELSE out.resp
           parsed == out.err = NoError /\ parseOK
       IN plugin' = [plugin EXCEPT
                       !.pc = "done", !.req = req,
                       !.Version = IF parsed THEN version ELSE "",
                       !.queueList = IF parsed /\ versionOK THEN queues
                                     ELSE <<>>,
                       !.log = @ \o Calls(req, out.trace),
                       !.last = [made |-> TRUE, req |-> req, r1 |-> r1, healthy |-> healthy,
                                 r2 |-> r2, readOK |-> readOK, out |-> out],
                       !.result = result]
  /\ UNCHANGED <<input, stack, progress, TraversedLinks, InventoryData,
                 SystemURL, hErr, fetches, saved, ret, store, tele, monitor,
                 calc, fleet, emb, branches>>

\* ------------------------------------------------------------ specification
\* a caller starts one crawl on a fresh respHolder
Init ==
  /\ progress = 0
  /\ \E work \in 0..MaxBudget :
       \/ /\ input \in [UpdateFlag : BOOLEAN, DeviceUUID : {"d1"},
                         resourceList : {SkipResourceListUnderSystem}]
          /\ stack = <<Frame("getAllSystemInfo", SystemsCollection, <<>>, "",
                             work, progress)>>
          /\ store = NoStore
       \/ /\ input = [UpdateFlag |-> FALSE, DeviceUUID |-> "d1",
                       resourceList |-> SkipResourceListUnderChassis]
          /\ stack = <<Frame("getAllRootInfo", ChassisCollection, <<>>, "",
                             work, progress)>>
          /\ store = NoStore
       \/ /\ input = [UpdateFlag |-> FALSE, DeviceUUID |-> "d1",
                      resourceList |-> {}]
          /\ stack = <<Frame("getAllRegistries", Registries, <<>>, "",
                             work, progress)>>
          /\ store = NoStore
       \/ /\ input = [UpdateFlag |-> FALSE, DeviceUUID |-> "d1",
                      resourceList |-> {}]
          /\ \E c \in TeleCollections :
               stack = <<Frame("storeTelemetryCollectionInfo", c, <<>>, "",
                               work, progress)>>
          /\ \E members \in {NoData, [Members |-> <<M1>>, MembersCount |-> 1]},
                m1 \in PriorDocs, active \in SUBSET {M1} :
               store = [collection |-> [c \in TeleCollections |-> members],
                        metric |-> [m \in TeleMembers |->
                                      IF m = M1 THEN m1 ELSE NoData],
                        active |-> active]
  /\ TraversedLinks = {}
  /\ InventoryData = {}
  /\ SystemURL = <<>>
  /\ hErr = NoErrorState
  /\ fetches = [p \in Paths |-> 0]
  /\ saved = [inventory |-> {}, index |-> {}]
  /\ ret = NoReturn
  /\ plugin = NoPlugin
  /\ tele = NoTele
  /\ monitor = NoMonitor
  /\ calc = NoCalc
  /\ fleet = {}
  /\ emb = NoEmb
  /\ branches = NoBranches

Next ==
  \/ getAllSystemInfo_fetch
  \/ getAllSystemInfo_member
  \/ getAllSystemInfo_return
  \/ getAllRootInfo_fetch
  \/ getAllRootInfo_member
  \/ getAllRootInfo_return
  \/ getSystemInfo_fetch
  \/ getSystemInfo_link
  \/ getSystemInfo_save
  \/ getIndivdualInfo_fetch
  \/ getIndivdualInfo_link
  \/ getIndivdualInfo_return
  \/ getResourceDetails_fetch
  \/ getResourceDetails_link
  \/ getResourceDetails_return
  \/ getAllRegistries_fetch
  \/ getAllRegistries_member
  \/ getAllRegistries_return
  \/ getRegistriesInfo_run
  \/ storeTelemetryCollectionInfo_fetch
  \/ storeTelemetryCollectionInfo_return
  \/ getIndividualTelemetryInfo_member
  \/ getIndividualTelemetryInfo_return
  \/ getTeleInfo_fetch
  \/ getTeleInfo_check
  \/ getTeleInfo_lock
  \/ getTeleInfo_save

Spec == Init /\ [][Next]_vars

\* a caller starts the crawl of one root resource, or of one sub-resource
\* of the system SYS, on a fresh respHolder
InitRoot ==
  /\ progress = 0
  /\ \E work \in 0..MaxBudget :
       \/ /\ input \in [UpdateFlag : BOOLEAN, DeviceUUID : {"d1"},
                         resourceList : {SkipResourceListUnderSystem}]
          /\ stack \in {<<Frame("getSystemInfo", SYS, <<>>, "", work, progress)>>,
                        <<Frame("getResourceDetails", STO, SYS, "1", work,
                                progress)>>}
       \/ /\ input = [UpdateFlag |-> FALSE, DeviceUUID |-> "d1",
                       resourceList |-> SkipResourceListUnderChassis]
          /\ stack = <<Frame("getIndivdualInfo", CH, <<>>, "", work, progress)>>
  /\ TraversedLinks = {}
  /\ InventoryData = {}
  /\ SystemURL = <<>>
  /\ hErr = NoErrorState
  /\ fetches = [p \in Paths |-> 0]
  /\ saved = [inventory |-> {}, index |-> {}]
  /\ ret = NoReturn
  /\ plugin = NoPlugin
  /\ tele = NoTele
  /\ monitor = NoMonitor
  /\ calc = NoCalc
  /\ fleet = {}
  /\ emb = NoEmb
  /\ branches = NoBranches
  /\ store = NoStore

NextRoot ==
  \/ getSystemInfo_fetch
  \/ getSystemInfo_link
  \/ getSystemInfo_save
  \/ getIndivdualInfo_fetch
  \/ getIndivdualInfo_link
  \/ getIndivdualInfo_return
  \/ getResourceDetails_fetch
  \/ getResourceDetails_link
  \/ getResourceDetails_return

\* the crawl is one sequential computation: it keeps running until it returns
RootSpec == InitRoot /\ [][NextRoot]_vars /\ WF_vars(NextRoot)

\* a caller contacts a plugin once, or checks the status of a plugin it is
\* about to add
InitPlugin ==
  /\ progress = 0
  /\ input = [UpdateFlag |-> FALSE, DeviceUUID |-> "d1",
                      resourceList |-> {}]
  /\ stack = <<>>
  /\ TraversedLinks = {}
  /\ InventoryData = {}
  /\ SystemURL = <<>>
  /\ hErr = NoErrorState
  /\ fetches = [p \in Paths |-> 0]
  /\ saved = [inventory |-> {}, index |-> {}]
  /\ ret = NoReturn
  /\ store = NoStore
  /\ tele = NoTele
  /\ monitor = NoMonitor
  /\ calc = NoCalc
  /\ fleet = {}
  /\ emb = NoEmb
  /\ branches = NoBranches
  /\ \/ \E poll \in BOOLEAN, oid \in {SYS, Sessions} :
          plugin = [NoPlugin EXCEPT
                      !.pc = "contactPlugin",
                      !.req = [OID |-> oid, StatusPoll |-> poll,
                               Plugin |-> ThePlugin, HTTPMethodType |-> "GET",
                               Token |-> ""]]
     \/ \E variant \in Variants :
          LET cmVariants == getConnectionMethodVariants(variant) IN
          plugin = [NoPlugin EXCEPT
                      !.pc = "checkStatus",
                      !.auth = cmVariants.PreferredAuthType,
                      !.FirmwareVersion = cmVariants.FirmwareVersion,
                      !.req = [OID |-> <<>>, StatusPoll |-> FALSE,
                               Plugin |-> ThePlugin, HTTPMethodType |-> "",
                               Token |-> ""]]

NextPlugin ==
  \/ contactPlugin_run
  \/ checkStatus_login
  \/ checkStatus_status

PluginSpec == InitPlugin /\ [][NextPlugin]_vars

\* discovery runs of the fleet reach getTeleInfo for the same metric at the
\* same time, each for one device, on a database without markers
InitTele ==
  /\ progress = 0
  /\ input = [UpdateFlag |-> FALSE, DeviceUUID |-> "d1",
              resourceList |-> {}]
  /\ stack = <<>>
  /\ TraversedLinks = {}
  /\ InventoryData = {}
  /\ SystemURL = <<>>
  /\ hErr = NoErrorState
  /\ fetches = [p \in Paths |-> 0]
  /\ saved = [inventory |-> {}, index |-> {}]
  /\ ret = NoReturn
  /\ store = NoStore
  /\ plugin = NoPlugin
  /\ monitor = NoMonitor
  /\ calc = NoCalc
  /\ fleet = {}
  /\ emb = NoEmb
  /\ branches = NoBranches
  /\ \E oid \in {M1, M2}, uuids \in [Callers -> Devices] :
       tele = [p \in Callers |-> TeleCall(oid, uuids[p])]

NextTele ==
  \E p \in Callers :
     \/ teleFetch(p)
     \/ teleCheck(p)
     \/ teleLock(p)
     \/ teleSave(p)
     \/ teleRelease(p)

TeleSpec == InitTele /\ [][NextTele]_vars

\* no crawl, no plugin session and no telemetry call is in progress
NoCrawl ==
  /\ progress = 0
  /\ input = [UpdateFlag |-> FALSE, DeviceUUID |-> "d1",
              resourceList |-> {}]
  /\ stack = <<>>
  /\ TraversedLinks = {}
  /\ InventoryData = {}
  /\ SystemURL = <<>>
  /\ hErr = NoErrorState
  /\ fetches = [p \in Paths |-> 0]
  /\ saved = [inventory |-> {}, index |-> {}]
  /\ ret = NoReturn
  /\ store = NoStore
  /\ plugin = NoPlugin

\* the length of the member lists handed to getSuperSet
MaxList == 2

\* member lists as a plugin or the database can hand them over, links
\* standing for their Oid; a list can name a member twice
LinkLists == UNION {[1..k -> TeleMembers] : k \in 0..MaxList}

InitMerge ==
  /\ NoCrawl
  /\ tele = NoTele
  /\ monitor = NoMonitor
  /\ fleet = {}
  /\ emb = NoEmb
  /\ branches = NoBranches
  /\ \E t \in LinkLists, r \in LinkLists :
       calc = [pc |-> "input", telemetryInfo |-> t, resourceData |-> r,
               result |-> <<>>, again |-> <<>>]

\* getSuperSet on the stored list and the fetched list
getSuperSet_run ==
  /\ calc.pc = "input"
  /\ calc' = [calc EXCEPT !.pc = "merged",
                          !.result = getSuperSet(calc.telemetryInfo,
                                                 calc.resourceData)]
  /\ UNCHANGED <<input, stack, progress, TraversedLinks, InventoryData,
                 SystemURL, hErr, fetches, saved, ret, store, plugin, tele,
                 monitor, fleet, emb, branches>>

\* the next discovery run merges the stored result with the same list
getSuperSet_again ==
  /\ calc.pc = "merged"
  /\ calc' = [calc EXCEPT !.pc = "again",
                          !.again = getSuperSet(calc.result, calc.result)]
  /\ UNCHANGED <<input, stack, progress, TraversedLinks, InventoryData,
                 SystemURL, hErr, fetches, saved, ret, store, plugin, tele,
                 monitor, fleet, emb, branches>>

NextMerge == getSuperSet_run \/ getSuperSet_again

MergeSpec == InitMerge /\ [][NextMerge]_vars

\* resource paths handed to keyFormation, as strings.Split(oid, "/") gives
\* them: with and without a trailing slash, with no, one and several
\* segments that take the device UUID
KeyPaths ==
  {<<"", "redfish", "v1", "Systems", "1">>,
   <<"", "redfish", "v1", "Systems", "1", "">>,
   <<"", "redfish", "v1", "systems", "1">>,
   <<"", "redfish", "v1", "Systems", "1", "Storage", "1">>,
   <<"", "redfish", "v1", "Systems", "1", "Chassis", "1">>,
   <<"", "redfish", "v1", "Chassis", "1">>,
   <<"", "redfish", "v1", "Managers", "1", "Licenses", "L1">>,
   <<"", "redfish", "v1", "LicenseService", "Licenses", "L1">>,
   <<"", "redfish", "v1", "LicenseService", "Licenses", "1", "">>,
   <<"", "redfish", "v1", "UpdateService", "FirmwareInventory", "1">>,
   <<"", "redfish", "v1", "UpdateService", "SoftwareInventory", "1">>,
   <<"", "redfish", "v1", "Fabrics", "1">>}

\* the identifiers of the systems of a device
SystemIDs == {"1", "2"}

InitKey ==
  /\ NoCrawl
  /\ tele = NoTele
  /\ monitor = NoMonitor
  /\ fleet = {}
  /\ emb = NoEmb
  /\ branches = NoBranches
  /\ \E oid \in KeyPaths, systemID \in SystemIDs, uuid \in Devices :
       calc = [pc |-> "input", oid |-> oid, systemID |-> systemID,
               DeviceUUID |-> uuid, key |-> <<>>, again |-> <<>>]

\* keyFormation on a resource path
keyFormation_run ==
  /\ calc.pc = "input"
  /\ calc' = [calc EXCEPT !.pc = "keyed",
                          !.key = keyFormation(calc.oid, calc.systemID,
                                               calc.DeviceUUID)]
  /\ UNCHANGED <<input, stack, progress, TraversedLinks, InventoryData,
                 SystemURL, hErr, fetches, saved, ret, store, plugin, tele,
                 monitor, fleet, emb, branches>>

\* keyFormation on its own output, with the same owner and device
keyFormation_again ==
  /\ calc.pc = "keyed"
  /\ calc' = [calc EXCEPT !.pc = "again",
                          !.again = keyFormation(calc.key, calc.systemID,
                                                 calc.DeviceUUID)]
  /\ UNCHANGED <<input, stack, progress, TraversedLinks, InventoryData,
                 SystemURL, hErr, fetches, saved, ret, store, plugin, tele,
                 monitor, fleet, emb, branches>>

NextKey == keyFormation_run \/ keyFormation_again

KeySpec == InitKey /\ [][NextKey]_vars

\* the aggregator adds two devices that serve the same paths, one after the
\* other; each addition crawls with its own respHolder
InitFleet ==
  /\ progress = 0
  /\ \/ /\ input = [UpdateFlag |-> TRUE, DeviceUUID |-> "d1",
                     resourceList |-> SkipResourceListUnderSystem]
        /\ \E oid \in SystemMembers :
             stack = <<Frame("getSystemInfo", oid, <<>>, "", MaxBudget,
                             progress)>>
     \/ /\ input = [UpdateFlag |-> FALSE, DeviceUUID |-> "d1",
                     resourceList |-> SkipResourceListUnderChassis]
        /\ stack = <<Frame("getIndivdualInfo", CH, <<>>, "", MaxBudget,
                           progress)>>
  /\ TraversedLinks = {}
  /\ InventoryData = {}
  /\ SystemURL = <<>>
  /\ hErr = NoErrorState
  /\ fetches = [p \in Paths |-> 0]
  /\ saved = [inventory |-> {}, index |-> {}]
  /\ ret = NoReturn
  /\ store = NoStore
  /\ plugin = NoPlugin
  /\ tele = NoTele
  /\ monitor = NoMonitor
  /\ calc = NoCalc
  /\ fleet = {}
  /\ emb = NoEmb
  /\ branches = NoBranches

\* the crawl of the first device has returned: its keys are in the
\* database, and the same crawl starts for the second device
nextDevice ==
  /\ stack = <<>>
  /\ ret # NoReturn
  /\ input.DeviceUUID = "d1"
  /\ fleet' = {<<e[1], e[2]>> : e \in InventoryData}
  /\ input' = [input EXCEPT !.DeviceUUID = "d2"]
  /\ progress' = 0
  /\ stack' = <<Frame(ret.fn, ret.OID, <<>>, "", MaxBudget, 0)>>
  /\ TraversedLinks' = {}
  /\ InventoryData' = {}
  /\ SystemURL' = <<>>
  /\ hErr' = NoErrorState
  /\ fetches' = [p \in Paths |-> 0]
  /\ ret' = NoReturn
  /\ UNCHANGED <<saved, store, plugin, tele, monitor, calc, emb, branches>>

NextFleet ==
  \/ getSystemInfo_fetch
  \/ getSystemInfo_link
  \/ getSystemInfo_save
  \/ getIndivdualInfo_fetch
  \/ getIndivdualInfo_link
  \/ getIndivdualInfo_return
  \/ getResourceDetails_fetch
  \/ getResourceDetails_link
  \/ getResourceDetails_return
  \/ nextDevice

FleetSpec == InitFleet /\ [][NextFleet]_vars

\* ------------------------------------------------------ monitorPluginTask
\* the number of polls of the task location a plugin task takes at most
MaxPolls == 2

\* the error text of UpdateTask for a task that is being cancelled
Cancelling == "Cancelling"

\* what UpdateTask returns: nil, the cancelling error, another error
UpdateTaskErrors == {"", Cancelling, "update failed"}

\* the task states a plugin reports in the task body
TaskStates == {"Running", "Completed"}

TaskLocation == <<"", "taskmon", "1">>

\* the responses of the plugin to a poll of the task location
MonitorResponses == TeleResponses \cup {Response(202, Garbage, "/task/1", "")}

monitorContact ==
  {contactPlugin([OID |-> TaskLocation, StatusPoll |-> poll,
                  Plugin |-> ThePlugin],
                 "error while performing simple update action: ",
                 r1, healthy, r2, TRUE) :
     r1 \in MonitorResponses, r2 \in MonitorResponses, poll \in {FALSE},
     healthy \in BOOLEAN}

\* a cancellation reported by UpdateTask is not acted on
cancelling_never(err) == FALSE

\* line 1686: err != nil && err.Error() == common.Cancelling
cancelling(err) == err # "" /\ err = Cancelling

\* monitorPluginTask is called with the 202 response of the plugin, whose
\* body may or may not parse
InitMonitor ==
  /\ NoCrawl
  /\ tele = NoTele
  /\ calc = NoCalc
  /\ fleet = {}
  /\ emb = NoEmb
  /\ branches = NoBranches
  /\ \E body \in {DocBody, Garbage} :
       monitor = [pc |-> "parse", respBody |-> body, TaskState |-> "",
                  polls |-> 0, log |-> <<>>, observed |-> 0,
                  StatusCode |-> 202, err |-> ""]

MonitorIdle ==
  UNCHANGED <<input, stack, progress, TraversedLinks, InventoryData,
              SystemURL, hErr, fetches, saved, ret, store, plugin, tele,
              calc, fleet, emb, branches>>

\* lines 1676-1683: the task body is parsed
monitor_parse ==
  /\ monitor.pc = "parse"
  /\ IF ~jsonValid(monitor.respBody)
     THEN monitor' = [monitor EXCEPT
                        !.pc = "done",
                        !.log = Append(@, <<"send", "500", "">>),
                        !.err = "unmarshal"]
     ELSE \E st \in TaskStates :
            monitor' = [monitor EXCEPT !.pc = "update", !.TaskState = st]
  /\ MonitorIdle

\* lines 1684-1691: the task is updated; when UpdateTask says the task is
\* being cancelled, 500 goes to the channel, the task is updated to
\* Cancelled and the function returns
monitor_update ==
  /\ monitor.pc = "update"
  /\ \E err \in UpdateTaskErrors :
       LET log == Append(monitor.log,
                         <<"UpdateTask", monitor.TaskState, err>>)
           observed == IF err = Cancelling THEN Len(log)
                       ELSE monitor.observed
       IN IF cancelling(err)
          THEN monitor' = [monitor EXCEPT
                          !.pc = "done",
                          !.log = log \o <<<<"send", "500", "">>,
                                            <<"UpdateTask", "Cancelled",
                                              "Critical">>>>,
                          !.observed = observed,
                          !.err = err]
          ELSE monitor' = [monitor EXCEPT !.pc = "sleep", !.log = log,
                                          !.observed = observed]
  /\ MonitorIdle

\* line 1692
monitor_sleep ==
  /\ monitor.pc = "sleep"
  /\ monitor' = [monitor EXCEPT !.pc = "poll",
                                !.log = Append(@, <<"Sleep", "5s", "">>)]
  /\ MonitorIdle

\* the loop also ends on a poll that says the task is still accepted
finished_accepted(StatusCode) == StatusCode \in {200, 202}

\* line 1703: monitorTaskData.getResponse.StatusCode == http.StatusOK
finished(StatusCode) == StatusCode = 200

\* lines 1693-1706: the task location is polled; the plugin task ends within
\* MaxPolls polls
monitor_poll ==
  /\ monitor.pc = "poll"
  /\ \E res \in monitorContact :
       LET log == Append(monitor.log, <<"contactPlugin", "GET", "">>)
       IN IF res.err # NoError
          THEN monitor' = [monitor EXCEPT
                             !.pc = "done", !.polls = @ + 1,
                             !.log = Append(log, <<"send", "status", "">>),
                             !.StatusCode = res.resp.StatusCode,
                             !.respBody = res.body,
                             !.err = "contactPlugin"]
          ELSE IF finished(res.resp.StatusCode)
          THEN monitor' = [monitor EXCEPT
                             !.pc = "done", !.polls = @ + 1, !.log = log,
                             !.StatusCode = res.resp.StatusCode,
                             !.respBody = res.body]
          ELSE /\ monitor.polls + 1 < MaxPolls
               /\ monitor' = [monitor EXCEPT
                                !.pc = "parse", !.polls = @ + 1, !.log = log,
                                !.StatusCode = res.resp.StatusCode,
                                !.respBody = res.body]
  /\ MonitorIdle

NextMonitor ==
  \/ monitor_parse
  \/ monitor_update
  \/ monitor_sleep
  \/ monitor_poll

MonitorSpec == InitMonitor /\ [][NextMonitor]_vars

\* ---------------------------------------------------------- EmbTopic
\* the number of callers of ConsumeTopic that run at the same time
MaxEmbCalls == 2

EmbCallers == 1..MaxEmbCalls

\* the topics plugins report and control messages name
Topics == {"t1", "t2"}

\* the topic lists a caller goes through
TopicLists == {<<"t1">>, <<"t2">>, <<"t1", "t2">>}

\* the three callers of ConsumeTopic; the first two set EMBConsume under the
\* write lock before their loop
EmbFunctions == {"getPluginStatus", "getPluginEMB", "ProcessCtrlMsg"}

InitEmb ==
  /\ NoCrawl
  /\ tele = NoTele
  /\ monitor = NoMonitor
  /\ calc = NoCalc
  /\ fleet = {}
  /\ branches = NoBranches
  /\ \E fns \in [EmbCallers -> EmbFunctions],
        lists \in [EmbCallers -> TopicLists] :
       emb = [pc |-> "running", TopicsList |-> {}, readers |-> {},
              writer |-> 0, consumers |-> [t \in Topics |-> 0],
              call |-> [p \in EmbCallers |->
                          [fn |-> fns[p], topics |-> lists[p],
                           pc |-> IF fns[p] = "ProcessCtrlMsg"
                                  THEN "loop" ELSE "lock"]]]

EmbIdle ==
  UNCHANGED <<input, stack, progress, TraversedLinks, InventoryData,
              SystemURL, hErr, fetches, saved, ret, store, plugin, tele,
              monitor, calc, fleet, branches>>

EmbAt(p, pc) == emb.pc = "running" /\ emb.call[p].pc = pc

\* lines 211-213 and 562-564: EMBTopics.lock.Lock(), set EMBConsume
ConsumeTopic_setConsume(p) ==
  /\ EmbAt(p, "lock")
  /\ emb.writer = 0 /\ emb.readers = {}
  /\ emb' = [emb EXCEPT !.writer = p, !.call[p].pc = "unlock"]
  /\ EmbIdle

\* lines 213 and 564: EMBTopics.lock.Unlock()
ConsumeTopic_unlock(p) ==
  /\ EmbAt(p, "unlock")
  /\ emb' = [emb EXCEPT !.writer = 0, !.call[p].pc = "loop"]
  /\ EmbIdle

\* line 120: e.lock.RLock(), which other readers do not block
ConsumeTopic_rlock(p) ==
  /\ EmbAt(p, "loop")
  /\ emb.call[p].topics # <<>>
  /\ emb.writer = 0
  /\ emb' = [emb EXCEPT !.readers = @ \cup {p}, !.call[p].pc = "check"]
  /\ EmbIdle

\* line 122: the topic is looked up in the list
ConsumeTopic_check(p) ==
  /\ EmbAt(p, "check")
  /\ emb' = [emb EXCEPT !.call[p].pc =
                          IF Head(emb.call[p].topics) \in emb.TopicsList
                          THEN "runlock" ELSE "consume"]
  /\ EmbIdle

\* line 123: go consumer.Consume(topicName)
ConsumeTopic_consume(p) ==
  /\ EmbAt(p, "consume")
  /\ emb' = [emb EXCEPT !.consumers[Head(emb.call[p].topics)] = @ + 1,
                        !.call[p].pc = "record"]
  /\ EmbIdle

\* line 124: the map write under the read lock; next to another caller
\* that accesses the map it is a data race, which the runtime may end with
\* a fatal error
ConsumeTopic_record(p) ==
  /\ EmbAt(p, "record")
  /\ \E fatal \in BOOLEAN :
       /\ fatal => \E q \in EmbCallers \ {p} :
                      emb.call[q].pc \in {"check", "record"}
       /\ IF fatal
          THEN emb' = [emb EXCEPT !.pc = "fatal"]
          ELSE emb' = [emb EXCEPT
                         !.TopicsList = @ \cup {Head(emb.call[p].topics)},
                         !.call[p].pc = "runlock"]
  /\ EmbIdle

\* line 121: the deferred e.lock.RUnlock(), and the next topic of the caller
ConsumeTopic_runlock(p) ==
  /\ EmbAt(p, "runlock")
  /\ emb' = [emb EXCEPT !.readers = @ \ {p},
                        !.call[p].topics = Tail(@),
                        !.call[p].pc = "loop"]
  /\ EmbIdle

\* the loop of the caller is through
ConsumeTopic_return(p) ==
  /\ EmbAt(p, "loop")
  /\ emb.call[p].topics = <<>>
  /\ emb' = [emb EXCEPT !.call[p].pc = "done"]
  /\ EmbIdle

NextEmb ==
  \E p \in EmbCallers :
     \/ ConsumeTopic_setConsume(p)
     \/ ConsumeTopic_unlock(p)
     \/ ConsumeTopic_rlock(p)
     \/ ConsumeTopic_check(p)
     \/ ConsumeTopic_consume(p)
     \/ ConsumeTopic_record(p)
     \/ ConsumeTopic_runlock(p)
     \/ ConsumeTopic_return(p)

EmbSpec == InitEmb /\ [][NextEmb]_vars

\* ------------------------------------------------- concurrent branches
\* the number of branch crawls that run on one respHolder at the same time
MaxBranches == 2

Branches == 1..MaxBranches

InitBranch ==
  /\ NoCrawl
  /\ tele = NoTele
  /\ monitor = NoMonitor
  /\ calc = NoCalc
  /\ fleet = {}
  /\ emb = NoEmb
  /\ \E oids \in [Branches -> Nodes] :
       branches = [pc |-> "running", holder |-> 0,
                   crawl |-> [p \in Branches |->
                                [OID |-> oids[p], pc |-> "call",
                                 res |-> NoReturn]]]

BranchIdle ==
  UNCHANGED <<input, stack, progress, fetches, saved, ret, store, plugin,
              tele, monitor, calc, fleet, emb>>

BranchAt(p, pc) == branches.pc = "running" /\ branches.crawl[p].pc = pc

\* line 938: h.TraversedLinks[req.OID] = true, outside the lock
branch_mark(p) ==
  /\ BranchAt(p, "call")
  /\ TraversedLinks' = markTraversed(TraversedLinks, branches.crawl[p].OID)
  /\ branches' = [branches EXCEPT !.crawl[p].pc = "fetch"]
  /\ UNCHANGED <<InventoryData, SystemURL, hErr>>
  /\ BranchIdle

\* lines 939-940 and 949-951: the plugin call and the parse of its body
branch_fetch(p) ==
  /\ BranchAt(p, "fetch")
  /\ \E res \in crawlContact(branches.crawl[p].OID,
                              detailsMessage(branches.crawl[p].OID)) :
       branches' = [branches EXCEPT
                      !.crawl[p].res = res,
                      !.crawl[p].pc =
                         IF res.err # NoError \/ ~jsonValid(res.body)
                         THEN "lock" ELSE "store"]
  /\ UNCHANGED <<TraversedLinks, InventoryData, SystemURL, hErr>>
  /\ BranchIdle

\* lines 941 and 952: h.lock.Lock()
branch_lock(p) ==
  /\ BranchAt(p, "lock")
  /\ branches.holder = 0
  /\ branches' = [branches EXCEPT !.holder = p, !.crawl[p].pc = "error"]
  /\ UNCHANGED <<TraversedLinks, InventoryData, SystemURL, hErr>>
  /\ BranchIdle

\* lines 942-945 and 953-956: the error fields, written inside the lock
branch_error(p) ==
  /\ BranchAt(p, "error")
  /\ LET res == branches.crawl[p].res IN
       IF res.err # NoError
       THEN SetError(res.err, res.resp.StatusCode, res.resp.StatusMessage,
                     res.resp.MsgArgs)
       ELSE SetError(<<"error while trying unmarshal : ">>, 500,
                     InternalError, hErr.MsgArgs)
  /\ branches' = [branches EXCEPT !.crawl[p].pc = "unlock"]
  /\ UNCHANGED <<TraversedLinks, InventoryData, SystemURL>>
  /\ BranchIdle

\* lines 946 and 957: h.lock.Unlock() and the return
branch_unlock(p) ==
  /\ BranchAt(p, "unlock")
  /\ branches' = [branches EXCEPT !.holder = 0, !.crawl[p].pc = "done"]
  /\ UNCHANGED <<TraversedLinks, InventoryData, SystemURL, hErr>>
  /\ BranchIdle

\* line 997: h.InventoryData[resourceName+":"+oidKey] = ..., outside the lock
branch_store(p) ==
  /\ BranchAt(p, "store")
  /\ \E d \in Documents :
       InventoryData' =
         InvPut(InventoryData, getResourceName(branches.crawl[p].OID, d.Members),
                resourceKey(branches.crawl[p].OID, "1", DeviceUUID),
                branches.crawl[p].OID)
  /\ branches' = [branches EXCEPT !.crawl[p].pc = "done"]
  /\ UNCHANGED <<TraversedLinks, SystemURL, hErr>>
  /\ BranchIdle

NextBranch ==
  \E p \in Branches :
     \/ branch_mark(p)
     \/ branch_fetch(p)
     \/ branch_lock(p)
     \/ branch_error(p)
     \/ branch_unlock(p)
     \/ branch_store(p)

BranchSpec == InitBranch /\ [][NextBranch]_vars

\* ------------------------------------------------------ iteration order
\* the orders in which the range over a link map can yield its keys
Orders ==
  {o \in [1..Cardinality(Nodes) -> Nodes] :
     \A i, j \in 1..Cardinality(Nodes) : i # j => o[i] # o[j]}

\* the keys of a link map as one range over it yields them
Range(links, order) == SelectSeq(order, LAMBDA l : l \in links)

\* a resource graph: which documents the plugin serves and what they link to
Graphs == [Nodes -> [ok : BOOLEAN, links : LinkSets]]

RECURSIVE getResourceDetails(_, _, _, _, _)
RECURSIVE getResourceDetails_loop(_, _, _, _, _, _, _)

\* lines 937-1016, for a graph and an iteration order: the progress and the
\* visited set the call ends with
getResourceDetails(g, order, oid, alottedWork, h) ==
  LET marked == [h EXCEPT !.TraversedLinks = markTraversed(@, oid)] IN
  IF ~g[oid].ok
  THEN marked
  ELSE LET after == getResourceDetails_loop(g, order, oid,
                       Range(g[oid].links, order), alottedWork,
                       Cardinality(g[oid].links), marked) IN
       [after EXCEPT !.progress = addWork(@, alottedWork)]

\* lines 1002-1013
getResourceDetails_loop(g, order, parent, todo, alottedWork, n, h) ==
  IF todo = <<>>
  THEN h
  ELSE getResourceDetails_loop(g, order, parent, Tail(todo), alottedWork, n,
         IF checkRetrieval(Head(todo), parent, h.TraversedLinks)
         THEN getResourceDetails(g, order, TrimSuffix(Head(todo)),
                                 estimatedWork(alottedWork, n), h)
         ELSE h)

RECURSIVE getSystemInfo_loop(_, _, _, _, _, _)

\* lines 694-700: the loop over the links that removeRetrievalLinks left
getSystemInfo_loop(g, order, todo, alottedWork, n, h) ==
  IF todo = <<>>
  THEN h
  ELSE getSystemInfo_loop(g, order, Tail(todo), alottedWork, n,
         getResourceDetails(g, order, TrimSuffix(Head(todo)),
                            estimatedWork(alottedWork, n), h))

\* lines 685-700 for a system document with the given links
getSystemInfo(g, order, links, alottedWork) ==
  LET visited == markTraversed({}, SYS)
      retrievalLinks == removeRetrievalLinks(links, SYS,
                           SkipResourceListUnderSystem, visited) IN
  getSystemInfo_loop(g, order, Range(retrievalLinks, order), alottedWork,
                     Cardinality(retrievalLinks),
                     [progress |-> 0, TraversedLinks |-> visited])

NoOutcome == [progress |-> 0, TraversedLinks |-> {}]

InitOrder ==
  /\ NoCrawl
  /\ tele = NoTele
  /\ monitor = NoMonitor
  /\ fleet = {}
  /\ emb = NoEmb
  /\ branches = NoBranches
  /\ \E g \in Graphs, links \in LinkSets, order \in Orders :
       calc = [pc |-> "input", graph |-> g, links |-> links,
               order |-> order, first |-> NoOutcome, second |-> NoOutcome]

OrderIdle ==
  UNCHANGED <<input, stack, progress, TraversedLinks, InventoryData,
              SystemURL, hErr, fetches, saved, ret, store, plugin, tele,
              monitor, fleet, emb, branches>>

\* the crawl with the keys of every link map yielded in path order
getSystemInfo_run ==
  /\ calc.pc = "input"
  /\ calc' = [calc EXCEPT !.pc = "first",
                          !.first = getSystemInfo(calc.graph,
                                       <<STO, PROC, SENS>>, calc.links,
                                       MaxBudget)]
  /\ OrderIdle

\* the same crawl with the keys yielded in another order
getSystemInfo_reorder ==
  /\ calc.pc = "first"
  /\ calc' = [calc EXCEPT !.pc = "second",
                          !.second = getSystemInfo(calc.graph, calc.order,
                                        calc.links, MaxBudget)]
  /\ OrderIdle

NextOrder == getSystemInfo_run \/ getSystemInfo_reorder

OrderSpec == InitOrder /\ [][NextOrder]_vars

\* -------------------------------------------------------- link filtering
POW == <<"", "redfish", "v1", "Chassis", "1", "Power">>

\* the links and parents the filters are asked about
FilterPaths == {SYS, WithSlash(SYS), STO, CH, POW, SENS}

InitFilter ==
  /\ NoCrawl
  /\ tele = NoTele
  /\ monitor = NoMonitor
  /\ fleet = {}
  /\ emb = NoEmb
  /\ branches = NoBranches
  /\ \E oid \in FilterPaths, parentoid \in FilterPaths \ {WithSlash(SYS)},
        traversedLinks \in SUBSET (FilterPaths \ {WithSlash(SYS)}),
        root \in BOOLEAN :
       calc = [pc |-> "input", oid |-> oid, parentoid |-> parentoid,
               traversedLinks |-> traversedLinks, root |-> root,
               recursed |-> FALSE]

\* lines 691 and 694-700: a link of a system root is recursed into when
\* removeRetrievalLinks leaves it in the map
removeRetrievalLinks_run ==
  /\ calc.pc = "input"
  /\ calc.root
  /\ calc' = [calc EXCEPT
               !.pc = "filtered",
               !.recursed = calc.oid \in removeRetrievalLinks({calc.oid},
                               calc.parentoid, SkipResourceListUnderSystem,
                               calc.traversedLinks)]
  /\ OrderIdle

\* line 1004: below the root a link is recursed into when checkRetrieval
\* returns true
checkRetrieval_run ==
  /\ calc.pc = "input"
  /\ ~calc.root
  /\ calc' = [calc EXCEPT
               !.pc = "filtered",
               !.recursed = checkRetrieval(calc.oid, calc.parentoid,
                                           calc.traversedLinks)]
  /\ OrderIdle

NextFilter == removeRetrievalLinks_run \/ checkRetrieval_run

FilterSpec == InitFilter /\ [][NextFilter]_vars

\* ---------------------------------------------------------------- getLinks
\* the number of keys of a JSON object
MaxKeys == 2

\* a JSON object is the sequence of its members in the order the range over
\* the map yields them; a member is a string, an object or an array of
\* objects with one member each
DistinctKeys(members) ==
  \A i, j \in 1..Len(members) : i # j => members[i].key # members[j].key

InnerMembers ==
  [key : {"@odata.id", "Name"}, kind : {"string"}, s : {STO, PROC},
   members : {<<>>}]

InnerObjects ==
  {o \in UNION {[1..n -> InnerMembers] : n \in 1..MaxKeys} : DistinctKeys(o)}

Members ==
  [key : {"@odata.id"}, kind : {"string"}, s : {STO, WithSlash(PROC)},
   members : {<<>>}]
    \cup [key : {"Oem", "OEM", "Links"}, kind : {"object", "array"},
          s : {<<>>}, members : InnerObjects]

JSONObjects ==
  {o \in UNION {[1..n -> Members] : n \in 1..MaxKeys} : DistinctKeys(o)}

\* retrievalLinks[link] = oemFlag
putLink(retrievalLinks, link, oemFlag) ==
  {e \in retrievalLinks : e[1] # link} \cup {<<link, oemFlag>>}

\* lines 1033-1035 and 1042-1044: the flag of the call itself is set, and
\* stays set for the keys the range yields later
oemKey(oemFlag, m) ==
  IF /\ EqualFold(m.key, "Oem")
     /\ m.kind = "object" \/ (m.kind = "array" /\ m.members # <<>>)
  THEN TRUE
  ELSE oemFlag

RECURSIVE getLinks(_, _, _)
RECURSIVE getLinks_array(_, _, _)

\* lines 1029-1059
getLinks(data, retrievalLinks, oemFlag) ==
  IF data = <<>>
  THEN retrievalLinks
  ELSE LET m == Head(data)
           flag == oemKey(oemFlag, m) IN
       getLinks(Tail(data),
                CASE m.kind = "object" ->
                       getLinks(m.members, retrievalLinks, flag)
                  [] m.kind = "array" ->
                       getLinks_array(m.members, retrievalLinks, flag)
                  [] OTHER ->
                       IF m.key = "@odata.id"
                       THEN putLink(retrievalLinks, TrimSuffix(m.s), oemFlag)
                       ELSE retrievalLinks,
                flag)

\* lines 1039-1048: every item of the array is an object of its own
getLinks_array(memberData, retrievalLinks, oemFlag) ==
  IF memberData = <<>>
  THEN retrievalLinks
  ELSE getLinks_array(Tail(memberData),
                      getLinks(<<Head(memberData)>>, retrievalLinks, oemFlag),
                      oemFlag)

InitLinks ==
  /\ NoCrawl
  /\ tele = NoTele
  /\ monitor = NoMonitor
  /\ fleet = {}
  /\ emb = NoEmb
  /\ branches = NoBranches
  /\ \E data \in JSONObjects, oemFlag \in BOOLEAN :
       calc = [pc |-> "input", data |-> data, oemFlag |-> oemFlag,
               retrievalLinks |-> {}]

getLinks_run ==
  /\ calc.pc = "input"
  /\ calc' = [calc EXCEPT !.pc = "links",
                          !.retrievalLinks = getLinks(calc.data, {},
                                                      calc.oemFlag)]
  /\ OrderIdle

\* the caller reads the map getLinks filled
getLinks_read ==
  /\ calc.pc = "links"
  /\ calc' = [calc EXCEPT !.pc = "read"]
  /\ OrderIdle

NextLinks == getLinks_run \/ getLinks_read

LinksSpec == InitLinks /\ [][NextLinks]_vars

\* ------------------------------------------------------ callPluginStartUp
StartUp == <<"", "ODIM", "v1", "Startup">>

\* the saved servers of a plugin
Servers == {"s1", "s2"}
ServerLists == {<<>>, <<"s1">>, <<"s2">>, <<"s1", "s2">>}

\* lines 336-345 of evcommon: what callPlugin hands to ContactPlugin; with
\* XAuthToken the token argument is the empty string, with BasicAuth the
\* credentials go along, and only with another auth type req.Token is sent
callPlugin(req) ==
  [fn |-> "callPlugin", OID |-> req.URL, Method |-> req.HTTPMethodType,
   Token |-> IF EqualFold(req.Plugin.PreferredAuthType, "XAuthToken") THEN ""
             ELSE IF EqualFold(req.Plugin.PreferredAuthType, "BasicAuth")
             THEN "" ELSE req.Token,
   PostBody |-> req.PostBody,
   Credential |-> IF ~EqualFold(req.Plugin.PreferredAuthType, "XAuthToken")
                     /\ EqualFold(req.Plugin.PreferredAuthType, "BasicAuth")
                  THEN req.LoginCredential ELSE ""]

InitStartUp ==
  /\ progress = 0
  /\ input = [UpdateFlag |-> FALSE, DeviceUUID |-> "d1",
              resourceList |-> {}]
  /\ stack = <<>>
  /\ TraversedLinks = {}
  /\ InventoryData = {}
  /\ SystemURL = <<>>
  /\ hErr = NoErrorState
  /\ fetches = [p \in Paths |-> 0]
  /\ saved = [inventory |-> {}, index |-> {}]
  /\ ret = NoReturn
  /\ store = NoStore
  /\ tele = NoTele
  /\ monitor = NoMonitor
  /\ calc = NoCalc
  /\ fleet = {}
  /\ emb = NoEmb
  /\ branches = NoBranches
  /\ \E auth \in {"XAuthToken", "XAUTHTOKEN", "BasicAuth"},
        servers \in ServerLists, known \in SUBSET Servers :
       plugin =
            [NoPlugin EXCEPT
               !.pc = "callPluginStartUp",
               !.auth = auth,
               !.req = [Plugin |-> [IP |-> ThePlugin.IP,
                                    Port |-> ThePlugin.Port,
                                    PreferredAuthType |-> auth],
                        URL |-> StartUp, HTTPMethodType |-> "POST",
                        PostBody |-> SelectSeq(servers,
                                               LAMBDA x : x \in known),
                        Token |-> "", LoginCredential |-> ""]]

StartUpIdle ==
  UNCHANGED <<input, stack, progress, TraversedLinks, InventoryData,
              SystemURL, hErr, fetches, saved, ret, store, tele, monitor,
              calc, fleet, emb, branches>>

\* lines 300-317 of callPluginStartUp: with XAuthToken the request is
\* rewritten into the session login and sent
callPluginStartUp_login ==
  /\ plugin.pc = "callPluginStartUp"
  /\ IF EqualFold(plugin.auth, "XAuthToken")
     THEN LET req == [plugin.req EXCEPT !.HTTPMethodType = "POST",
                                        !.PostBody = <<"Username", "Password">>,
                                        !.URL = Sessions] IN
          \E response \in PluginResponses :
            IF response.err
            THEN plugin' = [plugin EXCEPT
                              !.pc = "done", !.req = req,
                              !.log = Append(@, callPlugin(req)),
                              !.result = <<"error">>]
            ELSE plugin' = [plugin EXCEPT
                              !.pc = "startup",
                              !.req = [req EXCEPT
                                         !.Token = response.XAuthToken],
                              !.login = [NoCall EXCEPT !.made = TRUE,
                                                       !.r1 = response],
                              !.log = Append(@, callPlugin(req))]
     ELSE plugin' = [plugin EXCEPT
                       !.pc = "startup",
                       !.req = [plugin.req EXCEPT
                                  !.LoginCredential = "UserName:Password"]]
  /\ StartUpIdle

\* lines 318-331: the request is sent as it stands
callPluginStartUp_call ==
  /\ plugin.pc = "startup"
  /\ \E response \in PluginResponses :
       plugin' = [plugin EXCEPT
                    !.pc = "done",
                    !.log = Append(@, callPlugin(plugin.req)),
                    !.last = [NoCall EXCEPT !.made = TRUE, !.r1 = response],
                    !.result = IF response.err THEN <<"error">>
                               ELSE <<"updateDeviceSubscriptionLocation",
                                      response.Body>>]
  /\ StartUpIdle

NextStartUp == callPluginStartUp_login \/ callPluginStartUp_call

StartUpSpec == InitStartUp /\ [][NextStartUp]_vars

\* ------------------------------------------------------------ formWildCard
\* the number of metric properties of a document handed to formWildCard
MaxWildProps == 2

WildDocs ==
  [MetricProperties : UNION {[1..k -> Properties] : k \in 0..MaxWildProps}]

\* what createWildCard finds stored: nothing, or what an earlier discovery
\* of the device d0 persisted
StoredDocs ==
  {NoData} \cup {formWildCard(NoData, updateDoc(d, "d0")).doc : d \in WildDocs}

InitWild ==
  /\ NoCrawl
  /\ tele = NoTele
  /\ monitor = NoMonitor
  /\ fleet = {}
  /\ emb = NoEmb
  /\ branches = NoBranches
  /\ \E dbData \in StoredDocs, d \in WildDocs :
       calc = [pc |-> "input", dbData |-> dbData,
               resourceDataMap |-> updateDoc(d, "d1"),
               out |-> [err |-> FALSE, doc |-> NoData], saved |-> NoData]

\* lines 1530-1538: createWildCard hands the stored and the fetched document
\* to formWildCard
createWildCard_run ==
  /\ calc.pc = "input"
  /\ calc' = [calc EXCEPT !.pc = "formed",
                          !.out = formWildCard(calc.dbData,
                                               calc.resourceDataMap)]
  /\ OrderIdle

\* lines 1489-1492 and 1518: the document is persisted unless createWildCard
\* failed
createWildCard_save ==
  /\ calc.pc = "formed"
  /\ calc' = [calc EXCEPT !.pc = "saved",
                          !.saved = IF calc.out.err THEN calc.dbData
                                    ELSE calc.out.doc]
  /\ OrderIdle

NextWild == createWildCard_run \/ createWildCard_save

WildSpec == InitWild /\ [][NextWild]_vars

\* ------------------------------------------------ the search index record
\* a JSON object is a function from the keys it holds
EmptyObject == [k \in {} |-> 0]

setKey(object, key, value) ==
  [k \in DOMAIN object \cup {key} |->
     IF k = key THEN value ELSE object[k]]

Has(object, key) == key \in DOMAIN object

\* the objects over a set of keys in which any subset of the keys is absent
Objects(value) ==
  {[k \in keys |-> value[k]] : keys \in SUBSET (DOMAIN value)}

SystemKey == <<"redfish", "v1", "Systems", "d1.1">>
StorageKey == SystemKey \o <<"Storage">>

MemorySummaries ==
  Objects([TotalSystemMemoryGiB |-> 16, TotalSystemPersistentMemoryGiB |-> 4])

ProcessorSummaries == Objects([Count |-> 2, Model |-> "Xeon"])

Storages == Objects("@odata.id" :> StorageKey)

\* the system documents: each extracted field present or absent
ComputeSystems ==
  UNION {UNION {UNION {
    Objects([MemorySummary |-> m, SystemType |-> "Physical",
             ProcessorSummary |-> p, PowerState |-> "On", Storage |-> s]) :
      m \in MemorySummaries} : p \in ProcessorSummaries} : s \in Storages}

\* the drive resources: capacity and media type present or absent
Drives == Objects([CapacityBytes |-> 2000000000, MediaType |-> "SSD"])

\* what GetStorageResources returns for the storage collection, for its one
\* member and for the drive of the member: Members and Drives nil, empty or
\* of one element
Lookups ==
  [Members : {"nil", "empty", "one"}, Drives : {"nil", "empty", "one"},
   drive : Drives]

\* lines 820-838: the attributes of the system document; a type assertion on
\* a key the object does not hold is a runtime panic
attributes(computeSystem) ==
  LET memSum == computeSystem["MemorySummary"]
      procSum == computeSystem["ProcessorSummary"]
      f0 == [panic |-> FALSE, searchForm |-> EmptyObject]
      f1 == IF ~Has(computeSystem, "MemorySummary") THEN f0
            ELSE IF ~Has(memSum, "TotalSystemMemoryGiB")
            THEN [f0 EXCEPT !.panic = TRUE]
            ELSE LET a == setKey(f0.searchForm,
                                 "MemorySummary/TotalSystemMemoryGiB",
                                 memSum["TotalSystemMemoryGiB"]) IN
                 [f0 EXCEPT !.searchForm =
                    IF Has(memSum, "TotalSystemPersistentMemoryGiB")
                    THEN setKey(a,
                           "MemorySummary/TotalSystemPersistentMemoryGiB",
                           memSum["TotalSystemPersistentMemoryGiB"])
                    ELSE a]
      f2 == IF f1.panic \/ ~Has(computeSystem, "SystemType") THEN f1
            ELSE [f1 EXCEPT !.searchForm =
                    setKey(f1.searchForm, "SystemType",
                           computeSystem["SystemType"])]
      f3 == IF f2.panic \/ ~Has(computeSystem, "ProcessorSummary") THEN f2
            ELSE IF ~Has(procSum, "Count") \/ ~Has(procSum, "Model")
            THEN [f2 EXCEPT !.panic = TRUE]
            ELSE [f2 EXCEPT !.searchForm =
                    setKey(setKey(setKey(f2.searchForm,
                       "ProcessorSummary/Count", procSum["Count"]),
                       "ProcessorSummary/sockets", procSum["Count"]),
                       "ProcessorSummary/Model", procSum["Model"])]
  IN IF f3.panic \/ ~Has(computeSystem, "PowerState") THEN f3
     ELSE [f3 EXCEPT !.searchForm =
             setKey(f3.searchForm, "PowerState", computeSystem["PowerState"])]

\* strings.Contains(oidKey, "/Storage")
underStorage(oidKey) == \E i \in 2..Len(oidKey) : oidKey[i] = "Storage"

\* lines 846-887: the drives of the storage collection
storageDrives(form, computeSystem, oidKey, lookup) ==
  IF ~(Has(computeSystem, "Storage") \/ underStorage(oidKey))
  THEN form
  ELSE IF ~underStorage(oidKey) /\ ~Has(computeSystem["Storage"], "@odata.id")
  THEN [form EXCEPT !.panic = TRUE]
  ELSE IF lookup.Members # "one" \/ lookup.Drives = "nil"
  THEN form
  ELSE LET drives == IF lookup.Drives = "one" THEN <<lookup.drive>>
                     ELSE <<>>
           capacity == IF drives # <<>> /\ Has(drives[1], "CapacityBytes")
                       THEN <<drives[1]["CapacityBytes"] \div 1000000000>>
                       ELSE <<>>
           types == IF drives # <<>> /\ Has(drives[1], "MediaType")
                    THEN <<drives[1]["MediaType"]>>
                    ELSE <<>> IN
       [form EXCEPT !.searchForm =
          setKey(setKey(setKey(form.searchForm,
             "Storage/Drives/Quantity", Len(drives)),
             "Storage/Drives/Capacity", capacity),
             "Storage/Drives/Type", types)]

InitIndex ==
  /\ NoCrawl
  /\ tele = NoTele
  /\ monitor = NoMonitor
  /\ fleet = {}
  /\ emb = NoEmb
  /\ branches = NoBranches
  /\ \E computeSystem \in ComputeSystems, oidKey \in {SystemKey, StorageKey},
        lookup \in Lookups, firmwareVersion \in {"", "2.1"} :
       calc = [pc |-> "input", computeSystem |-> computeSystem,
               oidKey |-> oidKey, lookup |-> lookup,
               firmwareVersion |-> firmwareVersion,
               out |-> [panic |-> FALSE, searchForm |-> EmptyObject]]

\* lines 818-838: the memory, type, processor and power attributes
createServerSearchIndex_attributes ==
  /\ calc.pc = "input"
  /\ LET out == attributes(calc.computeSystem) IN
       calc' = [calc EXCEPT !.pc = IF out.panic THEN "panic" ELSE "storage",
                            !.out = out]
  /\ OrderIdle

\* lines 840-889: the firmware version of the manager and the drives
createServerSearchIndex_storage ==
  /\ calc.pc = "storage"
  /\ LET form == IF underStorage(calc.oidKey) THEN calc.out
                 ELSE [calc.out EXCEPT !.searchForm =
                         setKey(calc.out.searchForm, "FirmwareVersion",
                                calc.firmwareVersion)]
         out == storageDrives(form, calc.computeSystem, calc.oidKey,
                              calc.lookup) IN
       calc' = [calc EXCEPT !.pc = IF out.panic THEN "panic" ELSE "done",
                            !.out = out]
  /\ OrderIdle

NextIndex ==
  createServerSearchIndex_attributes \/ createServerSearchIndex_storage

IndexSpec == InitIndex /\ [][NextIndex]_vars

\* ------------------------------------------- the status poll of the plugins
\* the polling rounds of GetAllPluginStatus that are followed
MaxRounds == 3

Plugins == {"GRF", "ILO"}

\* config.Data.PluginStatusPolling.StartUpResouceBatchSize
BatchSizes == {1, 2}

\* the topics a plugin reports with its status
topicsOf(p) == IF p = "GRF" THEN {"t1"} ELSE {"t2"}

\* a getPluginStatus goroutine: last and before are the outcomes of its
\* latest and of its previous CheckStatus, wanted tells that the branch of
\* line 182 was taken, started that callPluginStartUp was called for the
\* plugin since its last failed check, sent counts the Startup calls a server
\* went out with (2 stands for two or more), oversize that a batch exceeded
\* the batch size
NoStatusRun ==
  [pc |-> "idle", last |-> "none", before |-> "none", wanted |-> FALSE,
   started |-> FALSE,
   allServers |-> <<>>, sent |-> [s \in Servers |-> 0], oversize |-> FALSE,
   ended |-> FALSE]

InitPoll ==
  /\ NoCrawl
  /\ tele = NoTele
  /\ monitor = NoMonitor
  /\ calc = NoCalc
  /\ fleet = {}
  /\ branches = NoBranches
  /\ \E size \in BatchSizes, servers \in ServerLists :
       emb = [pc |-> "polling", PluginStartUp |-> FALSE, rounds |-> 0,
              StartUpResourceBatchSize |-> size, servers |-> servers,
              TopicsList |-> {}, run |-> [p \in Plugins |-> NoStatusRun]]

PollAt(p, pc) == emb.pc = "polling" /\ emb.run[p].pc = pc

\* lines 137-146: one round starts a getPluginStatus goroutine per plugin;
\* the rounds are minutes apart, the goroutines of the round before are over
GetAllPluginStatus_poll ==
  /\ emb.pc = "polling"
  /\ emb.rounds < MaxRounds
  /\ \A p \in Plugins : emb.run[p].pc = "idle"
  /\ emb' = [emb EXCEPT
       !.rounds = @ + 1,
       !.run = [p \in Plugins |->
                  [NoStatusRun EXCEPT !.pc = "check",
                                      !.last = emb.run[p].last,
                                      !.before = emb.run[p].before,
                                      !.started = emb.run[p].started]]]
  /\ EmbIdle

\* lines 174-179: CheckStatus; a failed check clears the flag all plugins
\* share and returns
getPluginStatus_check(p) ==
  /\ PollAt(p, "check")
  /\ \E status \in BOOLEAN :
       emb' = [emb EXCEPT
         !.PluginStartUp = IF status THEN @ ELSE FALSE,
         !.run[p].before = emb.run[p].last,
         !.run[p].last = IF status THEN "ok" ELSE "failed",
         !.run[p].started = IF status THEN @ ELSE FALSE,
         !.run[p].pc = IF status THEN "decide" ELSE "idle"]
  /\ EmbIdle

\* lines 180-188: the plugin is up; Startup is due when the shared flag is
\* down, and getAllServers reads the servers of the plugin
getPluginStatus_decide(p) ==
  /\ PollAt(p, "decide")
  /\ IF emb.PluginStartUp
     THEN emb' = [emb EXCEPT !.run[p].pc = "topics"]
     ELSE \E err \in BOOLEAN :
            emb' = [emb EXCEPT
              !.run[p].wanted = TRUE,
              !.run[p].allServers = IF err THEN <<>> ELSE emb.servers,
              !.run[p].pc = IF err THEN "topics" ELSE "loop"]
  /\ EmbIdle

\* the ghost count of the Startup calls each server of a batch went out with
sentWith(sent, batchServers) ==
  [s \in Servers |->
     IF (\E i \in DOMAIN batchServers : batchServers[i] = s) /\ sent[s] < 2
     THEN sent[s] + 1
     ELSE sent[s]]

\* lines 189-205: one turn of the batching loop; a short list goes out and
\* ends the loop whatever callPluginStartUp returns, a full batch that failed
\* is sent again, one that went through is cut off the list
getPluginStatus_batch(p) ==
  /\ PollAt(p, "loop")
  /\ LET r == emb.run[p]
         size == emb.StartUpResourceBatchSize
         batchServers == SubSeq(r.allServers, 1, size) IN
     \E err \in BOOLEAN :
       IF Len(r.allServers) < size
       THEN emb' = [emb EXCEPT
              !.run[p].started = TRUE,
              !.run[p].sent = sentWith(@, r.allServers),
              !.run[p].oversize = @ \/ Len(r.allServers) > size,
              !.run[p].ended = TRUE,
              !.run[p].pc = "flag"]
       ELSE emb' = [emb EXCEPT
              !.run[p].started = TRUE,
              !.run[p].sent = sentWith(@, batchServers),
              !.run[p].oversize = @ \/ Len(batchServers) > size,
              !.run[p].allServers =
                 IF err THEN @ ELSE SubSeq(@, size + 1, Len(@))]
  /\ EmbIdle

\* line 206: PluginStartUp = true
getPluginStatus_flag(p) ==
  /\ PollAt(p, "flag")
  /\ emb' = [emb EXCEPT !.PluginStartUp = TRUE, !.run[p].pc = "topics"]
  /\ EmbIdle

\* lines 209-217: the topics of the plugin are consumed, the goroutine ends
getPluginStatus_topics(p) ==
  /\ PollAt(p, "topics")
  /\ emb' = [emb EXCEPT !.TopicsList = @ \cup topicsOf(p),
                        !.run[p].pc = "idle"]
  /\ EmbIdle

NextPoll ==
  \/ GetAllPluginStatus_poll
  \/ \E p \in Plugins :
       \/ getPluginStatus_check(p)
       \/ getPluginStatus_decide(p)
       \/ getPluginStatus_batch(p)
       \/ getPluginStatus_flag(p)
       \/ getPluginStatus_topics(p)

PollSpec == InitPoll /\ [][NextPoll]_vars

\* the cap on the call depth never stops a call the code would make
DepthBounded ==
  Nesting >= MaxDepth =>
     /\ top.fn = "getResourceDetails"
     /\ top.pc = "loop" =>
          \A oid \in top.links : ~checkRetrieval(oid, top.OID, TraversedLinks)

\* ------------------------------------------------------------------ claims
CrawlSteps == {"getSystemInfo", "getIndivdualInfo", "getResourceDetails"}

\* C1: on every resource graph, cyclic ones included, the crawl terminates:
\* every call of the crawl eventually returns
C1_CrawlTerminates == <>(stack = <<>>)

\* C1 witness: getResourceDetails iterates the links of a resource of which
\* one leads back to an ancestor other than its parent (a cycle A -> B -> C -> A)
C1_Witness ==
  /\ Running("getResourceDetails", "loop")
  /\ \E i \in 1..(Len(stack) - 2) :
       /\ stack[i].fn = "getResourceDetails"
       /\ stack[i].OID \in top.links

\* C2: within one crawl every path is fetched from the plugin at most once
C2_FetchedAtMostOnce == \A p \in Paths : fetches[p] <= 1

\* C3: the progress a crawl step adds never exceeds the budget it was given
C3_ProgressWithinBudget ==
  ret.fn \in CrawlSteps => ret.progOut - ret.progIn <= ret.alottedWork

\* C4: a step with budget B that recursed into N surviving links gave each
\* of them floor(B/N); with N = 0 the step credits the full B itself
C4_EvenSplit ==
  (ret.fn \in CrawlSteps /\ ret.outcome = "ok") =>
     /\ ret.nchild > 0 =>
          \A work \in ret.allocs : work = ret.alottedWork \div ret.nchild
     /\ ret.nchild = 0 => ret.progOut = ret.progIn + ret.alottedWork

\* C5: a child whose fetch or parse fails still consumes its allotted budget
C5_FailedChildConsumesBudget ==
  (ret.fn = "getResourceDetails" /\ ret.outcome \in {"fetchErr", "parseErr"})
     => ret.progOut = ret.progIn + ret.alottedWork

\* C6: progress never decreases: whatever the outcome (success, fetch error,
\* parse error), each of the progress-carrying operations returns at least
\* the progress it was called with
ProgressCarriers ==
  {"getAllSystemInfo", "getAllRootInfo", "getSystemInfo", "getIndivdualInfo",
   "getResourceDetails", "getAllRegistries", "getTeleInfo"}

C6_ProgressMonotonic ==
  /\ ret.fn \in ProgressCarriers => ret.progOut >= ret.progIn
  /\ \A i \in 1..Len(stack) : progress >= stack[i].progIn

\* C6 witness: an operation called with progress already above zero and a
\* budget of its own returned after a failed fetch or parse
C6_Witness ==
  /\ ret.fn \in ProgressCarriers
  /\ ret.outcome \in {"fetchErr", "parseErr"}
  /\ ret.progIn > 0
  /\ ret.alottedWork > 0

\* the number of outbound calls of one kind in a trace of contactPlugin
Count(trace, fn) == Cardinality({i \in 1..Len(trace) : trace[i] = fn})

\* the response contactPlugin went on with: that of the retry if it made one
Used(c) == IF Count(c.out.trace, "callPlugin") = 2 THEN c.r2 ELSE c.r1

URLOf(req) ==
  <<"https://", req.Plugin.IP, ":", req.Plugin.Port, req.OID>>

\* C7: after a contact failure contactPlugin probes the plugin only if
\* StatusPoll is set and repeats the call once only if the probe reports
\* healthy: at most two calls and one probe; a failure that remains is
\* returned as 503 CouldNotEstablishConnection with the plugin URL
C7_RetryOnlyAfterHealthyProbe ==
  plugin.last.made =>
    LET c == plugin.last
        t == c.out.trace
        calls == Count(t, "callPlugin")
        probes == Count(t, "GetPluginStatus")
    IN /\ calls \in {1, 2}
       /\ probes \in {0, 1}
       /\ Len(t) = calls + probes
       /\ probes = 1 <=> (c.r1.err /\ c.req.StatusPoll)
       /\ calls = 2 <=> (c.r1.err /\ c.req.StatusPoll /\ c.healthy)
       /\ t[1] = "callPlugin"
       /\ probes = 1 => t[2] = "GetPluginStatus"
       /\ (c.r1.err /\ (~c.req.StatusPoll \/ ~c.healthy \/ c.r2.err)) =>
             /\ c.out.err # NoError
             /\ c.out.resp = [StatusCode |-> 503,
                              StatusMessage |-> CouldNotEstablishConnection,
                              MsgArgs |-> <<URLOf(c.req)>>]

\* C7 witness: the first call failed, the probe reported the plugin healthy
\* and the retry failed too
C7_Witness ==
  /\ plugin.last.made
  /\ plugin.last.r1.err
  /\ plugin.last.req.StatusPoll
  /\ plugin.last.healthy
  /\ plugin.last.r2.err
  /\ plugin.last.out.resp.StatusCode = 503

LoginCalls ==
  {i \in 1..Len(plugin.log) :
     plugin.log[i].fn = "callPlugin" /\ plugin.log[i].OID = Sessions}

StatusCalls ==
  {i \in 1..Len(plugin.log) :
     plugin.log[i].fn = "callPlugin" /\ plugin.log[i].OID = Status}

\* C10 as stated: with XAuthToken the login comes first, its failure ends
\* checkStatus without a Status call, and a failed login is exactly one
\* login attempt
C10_FailedLoginOneAttempt ==
  (EqualFold(plugin.auth, "XAuthToken") /\ plugin.login.made) =>
     /\ plugin.log[1].OID = Sessions
     /\ plugin.login.out.err # NoError =>
          /\ plugin.pc = "done"
          /\ StatusCalls = {}
          /\ Cardinality(LoginCalls) = 1

\* C10 amended: with XAuthToken the login comes first and its failure ends
\* checkStatus with that error and without a Status call; checkStatus makes
\* one login contact, whose request is sent a second time only by the retry
\* of contactPlugin: when the first attempt failed to connect and the probe
\* reported the plugin healthy
C10_LoginFailureFatal ==
  (EqualFold(plugin.auth, "XAuthToken") /\ plugin.login.made) =>
     /\ plugin.log[1].fn = "callPlugin"
     /\ plugin.log[1].OID = Sessions
     /\ plugin.log[1].Method = "POST"
     /\ \A i \in StatusCalls : \A j \in LoginCalls : j < i
     /\ Cardinality(LoginCalls) =
          IF plugin.login.r1.err /\ plugin.login.healthy THEN 2 ELSE 1
     /\ plugin.login.out.err # NoError =>
          /\ plugin.pc = "done"
          /\ StatusCalls = {}
          /\ plugin.result = plugin.login.out.resp

\* C10 witness: the login could not connect, the probe reported healthy, the
\* retry was rejected with 401, and checkStatus has returned
C10_Witness ==
  /\ EqualFold(plugin.auth, "XAuthToken")
  /\ plugin.pc = "done"
  /\ plugin.login.made
  /\ plugin.login.r1.err
  /\ plugin.login.healthy
  /\ ~plugin.login.r2.err
  /\ plugin.login.r2.StatusCode = 401
  /\ plugin.login.out.err # NoError

\* the call holds the marker: it has created it and not yet deleted it
Holding(p) == tele[p].pc \in {"save", "release"}

\* C11: at most one getTeleInfo call at a time is between creating the
\* ActiveMetricRequest marker of a path and deleting it
C11_MarkerMutualExclusion ==
  \A p, q \in Callers :
     (p # q /\ tele[p].OID = tele[q].OID) => ~(Holding(p) /\ Holding(q))

\* C12: a getTeleInfo call invoked while the marker of its path exists makes
\* no plugin call for the path and saves no document
C12_SkippedWhenMarked ==
  \A p \in Callers :
     tele[p].markerAtCall => (~tele[p].fetched /\ ~tele[p].savedDoc)

\* C13: a getTeleInfo call that created the marker issues
\* DeleteMetricRequest before it returns, whether its save succeeded or not;
\* once all calls have returned and no delete failed, no marker remains
C13_MarkerReleased ==
  /\ \A p \in Callers :
       (tele[p].pc = "done" /\ tele[p].created) => tele[p].deleteIssued
  /\ ((\A p \in Callers : tele[p].pc = "done" /\ ~tele[p].deleteFailed)
        => store.active = {})

\* C13 witness: all calls have returned, one of them created the marker and
\* then failed to save its document, and no marker is left
C13_Witness ==
  /\ \A p \in Callers : tele[p].pc = "done" /\ ~tele[p].deleteFailed
  /\ \E p \in Callers : tele[p].created /\ ~tele[p].savedDoc
  /\ store.active = {}

\* the values of the templates of a stored metric document
WildValues(doc) ==
  IF doc = NoData THEN {}
  ELSE UNION {{<<doc.Wildcards[i].Name, doc.Wildcards[i].Values[j]>> :
                 j \in 1..Len(doc.Wildcards[i].Values)} :
              i \in 1..Len(doc.Wildcards)}

\* C14: a UUID in the stored value set of a template of a metric document
\* is still there after every later save for the same path
C14_TemplateGrowsOnly ==
  [][\A m \in TeleMembers :
       WildValues(store.metric[m]) \subseteq WildValues(store.metric[m]')]_vars

\* the members of a list
Elems(l) == {l[i] : i \in 1..Len(l)}

\* the place where a member first appears in a list
First(l, x) == CHOOSE i \in 1..Len(l) : l[i] = x /\ \A j \in 1..(i - 1) : l[j] # x

NoDuplicates(l) == \A i, j \in 1..Len(l) : l[i] = l[j] => i = j

\* the result is the union of the two lists, each member once, in the order
\* of first appearance in the first list followed by the second
IsUnionInOrder(result, telemetryInfo, resourceData) ==
  LET both == telemetryInfo \o resourceData
  IN /\ Elems(result) = Elems(telemetryInfo) \cup Elems(resourceData)
     /\ NoDuplicates(result)
     /\ \A i, j \in 1..Len(result) :
          i < j => First(both, result[i]) < First(both, result[j])

Merged == calc.pc \in {"merged", "again"}

\* C15 as stated: getSuperSet gives the union of the two member lists in
\* order of first appearance without duplicates, and getSuperSet(X, X) = X
\* for every member list X
C15_UnionAndIdempotent ==
  Merged =>
    /\ IsUnionInOrder(calc.result, calc.telemetryInfo, calc.resourceData)
    /\ (calc.telemetryInfo = calc.resourceData
          => calc.result = calc.telemetryInfo)

\* C15 amended: getSuperSet gives the union of the two member lists in order
\* of first appearance without duplicates; getSuperSet(X, X) = X for every
\* list X that names no member twice, and merging a result with itself gives
\* the result again
C15_UnionAndIdempotentOnSets ==
  /\ Merged =>
       /\ IsUnionInOrder(calc.result, calc.telemetryInfo, calc.resourceData)
       /\ ((calc.telemetryInfo = calc.resourceData
            /\ NoDuplicates(calc.telemetryInfo))
             => calc.result = calc.telemetryInfo)
  /\ calc.pc = "again" => calc.again = calc.result

\* C15 witness: {a,b} merged with {b,c} has given [a,b,c], and the result
\* merged with itself
C15_Witness ==
  /\ calc.pc = "again"
  /\ calc.telemetryInfo = <<M1, M2>>
  /\ calc.resourceData = <<M2, R1>>
  /\ calc.result = <<M1, M2, R1>>

\* C16: keyFormation applied to its own output with the same owner ID and
\* device UUID gives that output again, also for paths with a Licenses
\* segment
C16_KeyFormationIdempotent ==
  calc.pc = "again" => calc.again = calc.key

\* the segments of a path that qualify for the device UUID: the owner ID
\* right after Systems, Chassis, Managers, FirmwareInventory or
\* SoftwareInventory, and any segment right after Licenses
Qualifying(str, systemID) ==
  {i \in 2..Len(str) :
     \/ str[i] = systemID /\ ToLower(str[i - 1]) \in KeyOwnerSegments
     \/ ToLower(str[i - 1]) = "licenses"}

\* C17: the key carries the device UUID once, on the first qualifying
\* segment of the path, and every other segment is as in the path
C17_UuidOnceAtFirstSegment ==
  calc.pc \in {"keyed", "again"} =>
    LET str == TrimSuffix(calc.oid)
        q == Qualifying(str, calc.systemID)
        prefixed == {i \in 1..Len(str) : calc.key[i] # str[i]}
    IN /\ Len(calc.key) = Len(str)
       /\ q # {} => prefixed = {CHOOSE i \in q : \A j \in q : i <= j}
       /\ \A i \in prefixed : calc.key[i] = calc.DeviceUUID \o "." \o str[i]

\* C18: no key written to InventoryData for the second device is a key
\* written for the first device, which serves the same paths
C18_KeysDifferAcrossDevices ==
  \A e \in InventoryData : <<e[1], e[2]>> \notin fleet

\* C19: once UpdateTask has reported that the task is being cancelled,
\* monitorPluginTask has sent 500 to the channel, pushed the update to
\* Cancelled and returned, with no sleep and no poll of the task location
\* after the report
C19_CancelStopsPolling ==
  monitor.observed > 0 =>
    /\ monitor.pc = "done"
    /\ monitor.err = Cancelling
    /\ SubSeq(monitor.log, monitor.observed + 1, Len(monitor.log))
         = <<<<"send", "500", "">>, <<"UpdateTask", "Cancelled", "Critical">>>>

\* C19 witness: the cancellation was reported after a poll of the task
\* location, and the function has returned
C19_Witness ==
  /\ monitor.pc = "done"
  /\ monitor.observed > 0
  /\ monitor.polls > 0

\* the operations whose loops crawl the links or members of a document
Crawlers ==
  {"getAllSystemInfo", "getSystemInfo", "getIndivdualInfo",
   "getResourceDetails"}

\* the step is the return of a failed call to a crawler
FailedChildReturns ==
  /\ Len(stack) >= 2
  /\ Len(stack') = Len(stack) - 1
  /\ stack[Len(stack) - 1].fn \in Crawlers
  /\ ret'.outcome # "ok"

\* the step is the return of a crawler that was in its loop
CrawlerReturns ==
  /\ Len(stack) >= 1
  /\ Len(stack') = Len(stack) - 1
  /\ top.fn \in Crawlers
  /\ top.pc = "loop"

\* C20: when a child of getAllSystemInfo, getSystemInfo, getIndivdualInfo
\* or getResourceDetails returns with a failure, the parent is back in its
\* loop with the same remaining links and members and the same documents,
\* and a parent leaves its loop only when no link and no member remains
C20_FailureKeepsSiblings ==
  [][/\ FailedChildReturns =>
          /\ stack'[Len(stack')].pc = "loop"
          /\ stack'[Len(stack')].links = stack[Len(stack) - 1].links
          /\ stack'[Len(stack')].members = stack[Len(stack) - 1].members
          /\ InventoryData' = InventoryData
     /\ CrawlerReturns => (top.links = {} /\ top.members = <<>>)]_vars

\* C20 witness: getSystemInfo has crawled both links of the system; the
\* first child failed, the second was fetched after it and its document is
\* stored next to the system's
C20_Witness ==
  /\ Running("getSystemInfo", "loop")
  /\ top.nlinks = 2 /\ top.nchild = 2 /\ top.links = {}
  /\ hErr # NoErrorState
  /\ ret.fn = "getResourceDetails" /\ ret.outcome = "ok"
  /\ \A p \in Nodes : fetches[p] <= 1
  /\ \E e \in InventoryData : e[3] = ret.OID
  /\ \E failed \in Nodes \ {ret.OID} :
       /\ fetches[failed] = 1
       /\ \A e \in InventoryData : e[3] # failed

\* C21: the step in which getSystemInfo returns for a system whose UUID is
\* already indexed records status 409 ResourceAlreadyExists, returns an
\* error, and leaves InventoryData, TraversedLinks, SystemURL and the saved
\* inventory and index as they were
C21_DuplicateBeforePersistence ==
  [][(ret' # ret /\ ret'.outcome = "duplicate") =>
       /\ ret'.fn = "getSystemInfo" /\ ret'.err # NoError
       /\ ~input.UpdateFlag
       /\ hErr'.StatusCode = 409
       /\ hErr'.StatusMessage = ResourceAlreadyExists
       /\ InventoryData' = InventoryData
       /\ TraversedLinks' = TraversedLinks
       /\ SystemURL' = SystemURL
       /\ saved' = saved]_vars

\* C21 witness: getSystemInfo has returned the duplicate error at the root
\* of a crawl, and nothing is stored or saved
C21_Witness ==
  /\ stack = <<>>
  /\ ret.fn = "getSystemInfo" /\ ret.outcome = "duplicate"
  /\ hErr.StatusCode = 409
  /\ InventoryData = {} /\ TraversedLinks = {} /\ SystemURL = <<>>
  /\ saved = [inventory |-> {}, index |-> {}]

\* checkStatus has read a status body whose version is not the one of the
\* connection method variant
VersionMismatch ==
  /\ plugin.pc = "done"
  /\ plugin.FirmwareVersion # ""
  /\ plugin.Version # ""
  /\ plugin.Version # plugin.FirmwareVersion

\* C22: when the version in the plugin's status differs from the version of
\* the connection method variant, checkStatus returns status 400 with an
\* empty queue list, and the plugin has been called for the session login
\* and the status only
C22_FirmwareMismatchShortCircuits ==
  VersionMismatch =>
    /\ plugin.result.StatusCode = 400
    /\ plugin.queueList = <<>>
    /\ \A i \in 1..Len(plugin.log) : plugin.log[i].OID \in {Sessions, Status}
    /\ Cardinality({i \in 1..Len(plugin.log) :
                      plugin.log[i].OID = Status
                      /\ plugin.log[i].fn = "callPlugin"}) <= 2

\* C22 witness: after a session login the plugin reported v2.0.0 to a
\* variant for v1.0.0, and checkStatus returned 400
C22_Witness ==
  /\ VersionMismatch
  /\ plugin.login.made
  /\ plugin.Version = "v2.0.0" /\ plugin.FirmwareVersion = "v1.0.0"
  /\ plugin.result.StatusCode = 400

\* getSystemInfo is crawling /redfish/v1/Systems/1 (Id 1) for device d1,
\* and the system document links to its Storage
StorageScenario(f) ==
  /\ f.fn = "getSystemInfo" /\ f.pc = "loop"
  /\ f.OID = SYS /\ STO \in f.doc
  /\ DeviceUUID = "d1"

\* the system is stored under key, and its Storage link is still to be
\* crawled, or getResourceDetails has been called for it and fetches it
StoredAndRecursed(f, key) ==
  /\ <<"ComputerSystem", key, SYS>> \in InventoryData
  /\ \/ STO \in f.links
     \/ \E j \in 1..Len(stack) :
          /\ stack[j].fn = "getResourceDetails" /\ stack[j].OID = STO
          /\ stack[j].pc = "call"
     \/ fetches[STO] >= 1

\* C23 as stated: the system document of the scenario is stored under the
\* key ComputerSystem:d1.1, and the crawl recurses into its Storage
C23_ScenarioShortKey ==
  \A i \in 1..Len(stack) :
     StorageScenario(stack[i]) => StoredAndRecursed(stack[i], <<"d1.1">>)

\* C23 amended: the system document of the scenario is stored under the
\* key ComputerSystem:/redfish/v1/Systems/d1.1, and the crawl recurses into
\* its Storage
C23_ScenarioPathKey ==
  \A i \in 1..Len(stack) :
     StorageScenario(stack[i]) =>
       StoredAndRecursed(stack[i], <<"", "redfish", "v1", "Systems", "d1.1">>)

\* C23 witness: the loop of getSystemInfo is through; Storage, the only link
\* of the system, was fetched by getResourceDetails and stored
C23_Witness ==
  /\ Len(stack) = 1 /\ StorageScenario(top)
  /\ top.doc = {STO} /\ top.links = {}
  /\ ret.fn = "getResourceDetails" /\ ret.OID = STO /\ ret.outcome = "ok"
  /\ fetches[STO] = 1
  /\ InventoryData =
       {<<"ComputerSystem", <<"", "redfish", "v1", "Systems", "d1.1">>, SYS>>,
        <<"Storage", <<"", "redfish", "v1", "Systems", "d1.1", "Storage">>,
          STO>>}

\* the paths whose fetch starts in the step
FetchStarted == {p \in Paths : fetches'[p] > fetches[p]}

\* C24 as stated: TraversedLinks only grows, and a path is in it from the
\* step in which its fetch starts
C24_VisitedFromFetch ==
  [][/\ TraversedLinks \subseteq TraversedLinks'
     /\ FetchStarted \subseteq TraversedLinks']_vars

\* C24 amended: TraversedLinks only grows, and a path fetched by
\* getResourceDetails is in it from the step in which its fetch starts
C24_VisitedFromDetailsFetch ==
  [][/\ TraversedLinks \subseteq TraversedLinks'
     /\ Running("getResourceDetails", "call")
          => (FetchStarted = {top.OID} /\ top.OID \in TraversedLinks')]_vars

\* C24 witness: the fetch of getResourceDetails failed, and its path is in
\* TraversedLinks with the one of the system crawled before
C24_Witness ==
  /\ ret.fn = "getResourceDetails" /\ ret.outcome = "fetchErr"
  /\ ret.OID \in TraversedLinks
  /\ SYS \in TraversedLinks
  /\ ret.OID # SYS

\* C25: at most one consumer is started for a topic, however the
\* ConsumeTopic calls of the callers interleave
C25_OneConsumerPerTopic ==
  emb.pc # "idle" => \A t \in Topics : emb.consumers[t] <= 1

\* C26: every step that writes InventoryData, TraversedLinks, SystemURL or
\* the error fields of the respHolder is taken while the lock of the
\* respHolder is held
C26_WritesHoldLock ==
  [][(\/ InventoryData' # InventoryData
      \/ TraversedLinks' # TraversedLinks
      \/ SystemURL' # SystemURL
      \/ hErr' # hErr) => branches.holder # 0]_vars

\* C27: the total progress and the visited set a crawl ends with are the
\* same for every order in which the child links of each node are iterated
C27_OrderIndependent ==
  calc.pc = "second" => calc.second = calc.first

\* the visited set alone does not depend on the iteration order
VisitedOrderIndependent ==
  calc.pc = "second" =>
    calc.second.TraversedLinks = calc.first.TraversedLinks

\* the three tests on a link: it is not visited, it is not the parent path
\* with or without the trailing separator, and it does not itself match the
\* denylist of its context
PassesLinkTests(oid, parentoid, traversedLinks, root) ==
  /\ oid \notin traversedLinks
  /\ ~EqualFoldPath(parentoid, oid)
  /\ ~EqualFoldPath(WithSlash(parentoid), oid)
  /\ \A name \in (IF root THEN SkipResourceListUnderSystem
                         ELSE SkipResourceListUnderOthers) :
        ~PathContains(oid, name)

\* C28: a link is recursed into exactly when it passes the three tests on
\* the link: not visited, not the parent path, not matching the denylist of
\* its context
C28_LinkFiltering ==
  calc.pc = "filtered" =>
    (calc.recursed <=> PassesLinkTests(calc.oid, calc.parentoid,
                                       calc.traversedLinks, calc.root))

\* the places a link occurs at in a document, each with whether one of the
\* keys above it equals "Oem" case-insensitively
Occurrences(data) ==
  {<<TrimSuffix(data[i].s), FALSE>> :
     i \in {j \in 1..Len(data) :
              data[j].kind = "string" /\ data[j].key = "@odata.id"}}
    \cup UNION {{<<data[i].members[k].s, EqualFold(data[i].key, "Oem")>> :
                   k \in {n \in 1..Len(data[i].members) :
                            data[i].members[n].key = "@odata.id"}} :
                i \in {j \in 1..Len(data) : data[j].kind # "string"}}

\* C29: a link is recorded with OEM flag true exactly when the flag passed
\* in was true or a key above the link equals "Oem" case-insensitively,
\* whatever the order in which the keys are iterated
C29_OemFlagFromAncestors ==
  calc.pc \in {"links", "read"} =>
    \A e \in calc.retrievalLinks :
      LET under == {o[2] : o \in {x \in Occurrences(calc.data) : x[1] = e[1]}} IN
      /\ under # {}
      /\ (calc.oemFlag \/ under = {TRUE}) => e[2] = TRUE
      /\ (~calc.oemFlag /\ under = {FALSE}) => e[2] = FALSE

\* the recorded error names the path: in its message or in the URL among
\* its message arguments
Describes(h, p) ==
  /\ h.ErrorMessage # NoError
  /\ \/ h.ErrorMessage[1] = detailsMessage(p)
     \/ \E i \in 1..Len(h.MsgArgs) : h.MsgArgs[i][5] = p

\* C30: the error state describes every failed branch and not only the last
\* failure: a path that the recorded error identifies stays identifiable
\* when a later branch fails
C30_EveryFailureDescribed ==
  [][\A p \in Nodes : Describes(hErr, p) => Describes(hErr', p)]_vars

\* C31: with XAuthToken the call that follows the session login goes to
\* /ODIM/v1/Startup with the startup payload and carries the token the
\* login returned
C31_CallAfterLoginCarriesToken ==
  (/\ plugin.pc = "done"
   /\ EqualFold(plugin.auth, "XAuthToken")
   /\ Len(plugin.log) = 2)
    => /\ plugin.log[1].OID = Sessions
       /\ plugin.log[2].OID = StartUp
       /\ plugin.log[2].PostBody # <<"Username", "Password">>
       /\ plugin.log[2].Token = plugin.req.Token

\* the property contributed its UUID to the template and is stored with the
\* placeholder
Contributed(doc, property, name) ==
  /\ property[5] \in
       {doc.Wildcards[i].Values[j] :
          i \in {k \in 1..Len(doc.Wildcards) : doc.Wildcards[k].Name = name},
          j \in {n \in 1..2 * MaxWildProps :
                   \E k \in 1..Len(doc.Wildcards) :
                      doc.Wildcards[k].Name = name
                      /\ n <= Len(doc.Wildcards[k].Values)}}
  /\ \E i \in 1..Len(doc.MetricProperties) :
       doc.MetricProperties[i] = getUpdatedProperty(property, name).property

\* C32: on every discovery run, merges with a stored document included, a
\* property with /Systems/ contributes its UUID to the SystemID template
\* and one with /Chassis/ to the ChassisID template, and is stored with the
\* placeholder
C32_PropertiesContribute ==
  (calc.pc = "formed" /\ ~calc.out.err) =>
    \A i \in 1..Len(calc.resourceDataMap.MetricProperties) :
      LET property == calc.resourceDataMap.MetricProperties[i] IN
      /\ containsSegment(property, "Systems")
           => Contributed(calc.out.doc, property, SystemUUID)
      /\ (containsSegment(property, "Chassis")
          /\ ~containsSegment(property, "Systems"))
           => Contributed(calc.out.doc, property, ChassisUUID)

\* the collection is MetricReportsCollection
IsReports(oid) == docId(oid) \o "Collection" = "MetricReportsCollection"

\* the step in which storeTelemetryCollectionInfo saves the collection
CollectionSaved ==
  /\ Running("storeTelemetryCollectionInfo", "call")
  /\ Len(stack') >= Len(stack)
  /\ stack'[Len(stack)].pc = "members"

\* C33: when a prior collection is persisted, the collection saved has the
\* first-seen-order union of the prior and the fetched members and a
\* MembersCount equal to their number; first time or merge, every fetched
\* member gets a getTeleInfo call that fetches it, except for
\* MetricReportsCollection, of which no member is fetched
C33_CollectionMergedMembersFetched ==
  [][/\ CollectionSaved =>
          LET f == stack'[Len(stack)]
              telemetryInfo == store'.collection[f.OID] IN
          /\ f.doc.data # NoData =>
               /\ IsUnionInOrder(telemetryInfo.Members, f.doc.data.Members,
                                 f.doc.Members)
               /\ telemetryInfo.MembersCount = Len(telemetryInfo.Members)
          /\ IF IsReports(f.OID)
             THEN Len(stack') = Len(stack)
             ELSE /\ Len(stack') = Len(stack) + 1
                  /\ stack'[Len(stack')].fn = "getIndividualTelemetryInfo"
                  /\ stack'[Len(stack')].members = f.doc.Members
     /\ (Running("getIndividualTelemetryInfo", "loop") /\ top.members # <<>>) =>
          /\ Len(stack') = Len(stack) + 1
          /\ stack'[Len(stack')].fn = "getTeleInfo"
          /\ stack'[Len(stack')].OID = Head(top.members)
          /\ stack'[Len(stack)].members = Tail(top.members)
     /\ Running("getTeleInfo", "call") =>
          fetches'[top.OID] = fetches[top.OID] + 1
     /\ (Running("storeTelemetryCollectionInfo", "members")
         /\ IsReports(top.OID)) =>
          \A m \in TeleMembers : fetches[m] = 0]_vars

C33_Witness ==
  /\ Running("storeTelemetryCollectionInfo", "members")
  /\ top.OID = MetricDefinitions
  /\ top.doc.data # NoData
  /\ top.doc.data.Members = <<M1>>
  /\ top.doc.Members = <<M2, M1>>
  /\ store.collection[MetricDefinitions] =
       [Members |-> <<M1, M2>>, MembersCount |-> 2]
  /\ fetches[M1] = 1 /\ fetches[M2] = 1

\* the keys of the record that come from an attribute of the system document
Extracted ==
  [MemorySummary |-> {"MemorySummary/TotalSystemMemoryGiB",
                      "MemorySummary/TotalSystemPersistentMemoryGiB"},
   SystemType |-> {"SystemType"},
   ProcessorSummary |-> {"ProcessorSummary/Count", "ProcessorSummary/sockets",
                         "ProcessorSummary/Model"},
   PowerState |-> {"PowerState"}]

\* C34: createServerSearchIndex never fails on a missing attribute: whatever
\* subset of the extracted fields the system document lacks, it returns, and
\* the record it returns holds no key of an absent attribute
C34_AbsentFieldsOmitted ==
  /\ calc.pc # "panic"
  /\ calc.pc = "done" =>
       \A a \in DOMAIN Extracted :
          ~Has(calc.computeSystem, a) =>
             Extracted[a] \cap DOMAIN calc.out.searchForm = {}

\* C35: Startup is called only on plugin restart: when a status check of a
\* plugin succeeds and the check of the same plugin before it failed, Startup
\* is due for that plugin, and when the check before it succeeded as well
\* and Startup was called for the plugin since it last failed, Startup is not
\* called again; with several plugins polled side by side
C35_StartUpOnlyOnRestart ==
  [][\A p \in Plugins :
       (PollAt(p, "decide") /\ emb'.run[p].pc # "decide") =>
          /\ emb.run[p].before = "failed" => emb'.run[p].wanted
          /\ (emb.run[p].before = "ok" /\ emb.run[p].started) =>
                ~emb'.run[p].wanted]_vars

\* C36: the batching loop of getPluginStatus sends no batch of more than
\* StartUpResouceBatchSize servers and no server in two batches, and when it
\* has ended every saved server of the plugin went out in exactly one batch,
\* whatever callPluginStartUp returned
C36_EachServerInOneBatch ==
  emb.pc = "polling" =>
    \A p \in Plugins :
       LET r == emb.run[p] IN
       /\ ~r.oversize
       /\ \A s \in Servers : r.sent[s] <= 1
       /\ r.ended => \A s \in Elems(emb.servers) : r.sent[s] = 1

\* C37: a getTeleInfo call that finds the ActiveMetricRequest marker present
\* returns and leaves the marker in place; a marker is deleted only by a
\* call that created it
C37_FinderLeavesMarker ==
  [][\A p \in Callers :
       /\ (tele[p].pc = "check" /\ tele'[p].pc # "check"
           /\ tele[p].OID \in store.active) =>
             /\ tele'[p].pc = "done"
             /\ store'.active = store.active
             /\ ~tele'[p].deleteIssued
       /\ (tele'[p] # tele[p] /\ tele[p].OID \in store.active
           /\ tele[p].OID \notin store'.active) =>
             /\ tele[p].created
             /\ tele'[p].deleteIssued]_vars

\* C37 witness: one call holds the marker it created while another call on
\* the same path found it and has returned without issuing the delete
C37_Witness ==
  \E p, q \in Callers :
     /\ tele[p].pc = "save" /\ tele[p].created
     /\ tele[q].pc = "done" /\ tele[q].found
     /\ ~tele[q].created /\ ~tele[q].deleteIssued
     /\ tele[q].OID = tele[p].OID
     /\ tele[p].OID \in store.active

\* the returns of getTeleInfo that a failed fetch, a failed database call or
\* a marker that is present account for
TeleFailures ==
  {"fetchErr", "statusErr", "parseErr", "dbErr", "active", "lockErr",
   "saveErr"}

\* C38: a getTeleInfo call whose fetch succeeded and that found the lock free
\* persists the new document and credits its allotted work, also when the
\* document stored for the path by an earlier call holds no Wildcards
C38_StoredWithoutWildcardsSavedAgain ==
  (ret.fn = "getTeleInfo" /\ ret.outcome \notin TeleFailures) =>
     /\ ret.outcome = "ok"
     /\ ret.progOut = addWork(ret.progIn, ret.alottedWork)
     /\ store.metric[ret.OID] # NoData

\* the number of values monitorPluginTask has sent on subTaskChannel
Sends == Cardinality({i \in DOMAIN monitor.log : monitor.log[i][1] = "send"})

\* C39: monitorPluginTask has sent exactly one status on subTaskChannel when
\* it returned for a parse failure, a cancellation or a failed poll, and none
\* before and none when it returned successfully; it returns successfully
\* only after a poll that returned 200; and as long as the polls return
\* another status it pushes a task update, sleeps and polls again
C39_OneStatusPerFailedReturn ==
  /\ (monitor.pc = "done" /\ monitor.err # "") => Sends = 1
  /\ (monitor.pc = "done" /\ monitor.err = "") =>
        /\ Sends = 0
        /\ monitor.polls > 0
        /\ monitor.StatusCode = 200
        /\ monitor.log[Len(monitor.log)][1] = "contactPlugin"
  /\ monitor.pc \notin {"idle", "done"} =>
        /\ Sends = 0
        /\ monitor.polls > 0 => monitor.StatusCode # 200
  /\ \A i \in 1..(Len(monitor.log) - 1) :
        LET step == monitor.log[i]
            next == monitor.log[i + 1] IN
        /\ step[1] = "contactPlugin" => next[1] \in {"UpdateTask", "send"}
        /\ (step[1] = "UpdateTask" /\ step[3] \notin {Cancelling, "Critical"})
              => next[1] = "Sleep"
        /\ step[1] = "Sleep" => next[1] = "contactPlugin"

\* C39 witness: after a poll that returned 202 the task was updated and the
\* location polled again, and that poll failed: one status went to the channel
C39_Witness ==
  /\ monitor.pc = "done"
  /\ monitor.err = "contactPlugin"
  /\ monitor.polls = 2
  /\ Sends = 1
  /\ monitor.log[Len(monitor.log)][1] = "send"

\* C40: every document getResourceDetails has stored is kept under a key
\* whose path is the @odata.id of the stored body, the path of the resource
\* as updateResourceDataWithUUID rewrites it: key and body carry the device
\* UUID on the same segments
C40_KeyMatchesStoredId ==
  \A e \in InventoryData :
     e[3] \in Nodes =>
        e[2] = updateResourceDataWithUUID(e[3], input.DeviceUUID)
====
